---------------------------- MODULE Spec2Model ----------------------------
(***************************************************************************)
(* OracleLens credibility evaluation engine.                               *)
(*                                                                         *)
(* JavaScript numbers are modelled as records [k, v]: k = "num" with v the *)
(* value in units of 1/Scale (fixed point), k = "nan" for NaN and          *)
(* k = "inf" with v = 1 or -1 for +Infinity / -Infinity.  Division follows *)
(* IEEE-754: x/0 is an infinity for x # 0 and NaN for x = 0; a comparison  *)
(* with NaN is false; Math.max and Math.min return NaN when an argument is *)
(* NaN.                                                                    *)
(***************************************************************************)
EXTENDS Integers, Sequences, FiniteSets, TLC

\* Fixed-point unit: a number x is held as x * Scale, rounded to nearest.
Scale == 100 * 100

Num(v) == [k |-> "num", v |-> v]
Whole(n) == Num(n * Scale)
NaN == [k |-> "nan", v |-> 0]
Inf(s) == [k |-> "inf", v |-> s]

IsNum(x) == x.k = "num"
IsNaN(x) == x.k = "nan"

Abs(n) == IF n < 0 THEN -n ELSE n
Sign(n) == IF n < 0 THEN -1 ELSE 1

\* n / d for naturals n and d > 0, rounded to the nearest integer.
DivRound(n, d) == (2 * n + d) \div (2 * d)

\* (n * Scale) / d for naturals, split so that no product leaves 32 bits.
MulDiv(n, d) == (n \div d) * Scale + DivRound((n % d) * Scale, d)

RECURSIVE GCD(_, _)
GCD(a, b) == IF b = 0 THEN a ELSE GCD(b, a % b)

\* The JavaScript quotient n / d of two finite numbers given in the same unit
\* (the fraction is reduced first, which keeps the products small).
FRatio(n, d) ==
    IF d = 0
    THEN IF n = 0 THEN NaN ELSE Inf(Sign(n))
    ELSE LET g == GCD(Abs(n), Abs(d))
         IN  Num(Sign(n) * Sign(d) * MulDiv(Abs(n) \div g, Abs(d) \div g))

FDiv(a, b) ==
    IF IsNaN(a) \/ IsNaN(b) THEN NaN
    ELSE IF IsNum(a) /\ IsNum(b) THEN FRatio(a.v, b.v)
    ELSE IF IsNum(a) THEN Num(0)
    ELSE IF IsNum(b) THEN Inf(a.v * Sign(b.v))
    ELSE NaN

FAdd(a, b) ==
    IF IsNaN(a) \/ IsNaN(b) THEN NaN
    ELSE IF IsNum(a) /\ IsNum(b) THEN Num(a.v + b.v)
    ELSE IF IsNum(a) THEN b
    ELSE IF IsNum(b) THEN a
    ELSE IF a.v = b.v THEN a ELSE NaN

FNeg(a) == IF IsNaN(a) THEN NaN ELSE [a EXCEPT !.v = -a.v]

FSub(a, b) == FAdd(a, FNeg(b))

FAbs(a) == IF IsNaN(a) THEN NaN ELSE [a EXCEPT !.v = Abs(a.v)]

\* a * b; the product of two fixed-point values is rescaled by Scale.
FMul(a, b) ==
    IF IsNaN(a) \/ IsNaN(b) THEN NaN
    ELSE IF IsNum(a) /\ IsNum(b)
         THEN IF b.v % Scale = 0 THEN Num(a.v * (b.v \div Scale))
              ELSE IF a.v % Scale = 0 THEN Num((a.v \div Scale) * b.v)
              ELSE Num(Sign(a.v) * Sign(b.v) * DivRound(Abs(a.v) * Abs(b.v), Scale))
    ELSE IF (IsNum(a) /\ a.v = 0) \/ (IsNum(b) /\ b.v = 0) THEN NaN
    ELSE Inf(Sign(a.v) * Sign(b.v))

\* a <= b, a >= b, a < b, a > b: false as soon as one side is NaN.
FLe(a, b) ==
    /\ ~IsNaN(a) /\ ~IsNaN(b)
    /\ IF IsNum(a) /\ IsNum(b) THEN a.v <= b.v
       ELSE IF IsNum(a) THEN b.v = 1
       ELSE IF IsNum(b) THEN a.v = -1
       ELSE a.v <= b.v

FGe(a, b) == FLe(b, a)

FLt(a, b) == ~IsNaN(a) /\ ~IsNaN(b) /\ ~FLe(b, a)

FGt(a, b) == FLt(b, a)

\* Math.max / Math.min of two numbers.
FMax(a, b) == IF IsNaN(a) \/ IsNaN(b) THEN NaN ELSE IF FLe(a, b) THEN b ELSE a

FMin(a, b) == IF IsNaN(a) \/ IsNaN(b) THEN NaN ELSE IF FLe(a, b) THEN a ELSE b

\* e^(-k) for k = 0, 1, 2, ... in fixed point.
ExpNegInt(k) ==
    CASE k = 0 -> 10000 [] k = 1 -> 3679 [] k = 2 -> 1353 [] k = 3 -> 498
      [] k = 4 -> 183  [] k = 5 -> 67   [] k = 6 -> 25   [] k = 7 -> 9
      [] k = 8 -> 3    [] k = 9 -> 1    [] OTHER -> 0

\* e^(-f) for a fixed-point f in [0, 1): the Taylor series to the 7th power.
ExpNegFrac(f) ==
    LET t1 == f
        t2 == (t1 * f) \div (2 * Scale)
        t3 == (t2 * f) \div (3 * Scale)
        t4 == (t3 * f) \div (4 * Scale)
        t5 == (t4 * f) \div (5 * Scale)
        t6 == (t5 * f) \div (6 * Scale)
        t7 == (t6 * f) \div (7 * Scale)
    IN  Scale - t1 + t2 - t3 + t4 - t5 + t6 - t7

\* e^(-x) for a fixed-point x >= 0.
ExpNeg(x) == DivRound(ExpNegInt(x \div Scale) * ExpNegFrac(x % Scale), Scale)

\* Math.exp(a).
FExp(a) ==
    IF IsNaN(a) THEN NaN
    ELSE IF ~IsNum(a) THEN (IF a.v = 1 THEN Inf(1) ELSE Num(0))
    ELSE IF a.v <= 0 THEN Num(ExpNeg(-a.v))
    ELSE FRatio(Scale, ExpNeg(a.v))

\* Math.round(a): the nearest integer, halves rounded up.
FRound(a) ==
    IF ~IsNum(a) THEN a ELSE Num(((a.v + Scale \div 2) \div Scale) * Scale)

\* Number.isInteger(a) /\ lo <= a <= hi.
IsIntegerIn(a, lo, hi) ==
    IsNum(a) /\ a.v % Scale = 0 /\ lo * Scale <= a.v /\ a.v <= hi * Scale

\* 0 <= a <= 1.
InUnit(a) == IsNum(a) /\ 0 <= a.v /\ a.v <= Scale

(***************************************************************************)
(* Strings.  The oracle names, data types and domains the model draws from *)
(* are finite; toLowerCase and includes are tabulated over them.           *)
(***************************************************************************)
\* A value that is not a string (a number, null, undefined, an object).
NotAString == "<not-a-string>"

OracleNames == {"Chainlink", "pyth", "UnknownOracle", "constructor"}

\* The lower-case form of one character.
LowerChar(c) ==
    CASE c = "A" -> "a" [] c = "B" -> "b" [] c = "C" -> "c" [] c = "D" -> "d"
      [] c = "E" -> "e" [] c = "F" -> "f" [] c = "G" -> "g" [] c = "H" -> "h"
      [] c = "I" -> "i" [] c = "J" -> "j" [] c = "K" -> "k" [] c = "L" -> "l"
      [] c = "M" -> "m" [] c = "N" -> "n" [] c = "O" -> "o" [] c = "P" -> "p"
      [] c = "Q" -> "q" [] c = "R" -> "r" [] c = "S" -> "s" [] c = "T" -> "t"
      [] c = "U" -> "u" [] c = "V" -> "v" [] c = "W" -> "w" [] c = "X" -> "x"
      [] c = "Y" -> "y" [] c = "Z" -> "z" [] OTHER -> c

\* String.prototype.toLowerCase, character by character.
RECURSIVE toLowerCase(_)
toLowerCase(s) ==
    IF Len(s) = 0 THEN s
    ELSE LowerChar(SubSeq(s, 1, 1)) \o toLowerCase(SubSeq(s, 2, Len(s)))

\* String.prototype.includes: sub occurs in s at some position.
includes(s, sub) ==
    \E i \in 1..(Len(s) - Len(sub) + 1) : SubSeq(s, i, i + Len(sub) - 1) = sub

\* Keys every JavaScript object inherits from Object.prototype: a lookup
\* obj[key] on a Record finds the inherited member, which is not a number.
InheritedKeys == {"constructor"}

(***************************************************************************)
(* Factor calculators of the scoring package (baseScores).                 *)
(***************************************************************************)
\* ORACLE_REPUTATION[key]: the reputation, NaN for an inherited member (it
\* coerces to NaN in every arithmetic use), "absent" when the key is unknown.
ORACLE_REPUTATION(key) ==
    CASE key = "chainlink" -> Num(9500)
      [] key = "pyth" -> Num(9000)
      [] key = "api3" -> Num(8500)
      [] key = "band" -> Num(8000)
      [] key = "dia" -> Num(7500)
      [] key = "unknown" -> Num(5000)
      [] key \in InheritedKeys -> NaN
      [] OTHER -> [k |-> "absent", v |-> 0]

\* The absent historicalUptime / proofDomain / adjustment.
Undefined == [k |-> "undefined", v |-> 0]

calculateSourceScore(input) ==
    LET oracleKey == toLowerCase(input.oracleName)
        found == ORACLE_REPUTATION(oracleKey)
        baseReputation == IF found.k = "absent" THEN ORACLE_REPUTATION("unknown") ELSE found
        s1 == IF input.hasApiDocumentation THEN FAdd(baseReputation, Num(500)) ELSE baseReputation
        s2 == IF input.isRegulated THEN FAdd(s1, Num(500)) ELSE s1
        s3 == IF input.historicalUptime # Undefined
              THEN FAdd(FMul(s2, Num(7000)),
                        FMul(FDiv(input.historicalUptime, Whole(100)), Num(3000)))
              ELSE s2
    IN  FMax(Num(0), FMin(Whole(1), s3))

calculateTimeScore(input) ==
    LET ageSeconds == input.currentTimestamp - input.reportedTimestamp
        overageRatio == FRatio(ageSeconds, input.maxAcceptableAgeSeconds)
        halfLife == FRatio(input.maxAcceptableAgeSeconds, 2)
        score == FExp(FDiv(Whole(-ageSeconds), halfLife))
    IN  IF ageSeconds < 0 THEN Num(5000)
        ELSE IF ageSeconds > input.maxAcceptableAgeSeconds
             THEN FMax(Num(0), FSub(Whole(1), FMul(FSub(overageRatio, Whole(1)), Num(5000))))
        ELSE FMax(Num(0), FMin(Whole(1), score))

\* [...xs].sort((a, b) => a - b) on a sequence of integers (insertion sort).
RECURSIVE Insert(_, _)
Insert(x, s) ==
    IF s = << >> THEN <<x>>
    ELSE IF x <= Head(s) THEN <<x>> \o s
    ELSE <<Head(s)>> \o Insert(x, Tail(s))

RECURSIVE SortAsc(_)
SortAsc(s) == IF s = << >> THEN << >> ELSE Insert(Head(s), SortAsc(Tail(s)))

\* The median of a non-empty sequence of fixed-point values.
Median(referenceValues) ==
    LET sorted == SortAsc(referenceValues)
        n == Len(sorted)
    IN  IF n % 2 = 0
        THEN FDiv(Num(sorted[n \div 2] + sorted[n \div 2 + 1]), Whole(2))
        ELSE Num(sorted[n \div 2 + 1])

\* The body shared by both accuracy calculators up to the final clamp.
AccuracyDeviation(primaryValue, referenceValues) ==
    LET median == Median(referenceValues)
    IN  FMul(FAbs(FDiv(FSub(Num(primaryValue), median), median)), Whole(100))

calculateAccuracyScore(input) ==
    LET tol == Whole(input.tolerancePercent)
        deviationPercent == AccuracyDeviation(input.primaryValue, input.referenceValues)
        excessDeviation == FSub(deviationPercent, tol)
        score == FMul(Num(9000), FExp(FDiv(FNeg(excessDeviation), tol)))
    IN  IF Len(input.referenceValues) = 0 THEN Num(7000)
        ELSE IF FLe(deviationPercent, tol)
             THEN FSub(Whole(1), FMul(FDiv(deviationPercent, tol), Num(1000)))
        ELSE FMax(Num(0), FMin(Whole(1), score))

\* The allow-list of calculateProofScore.
trustedDomains ==
    {"api.coingecko.com", "api.coinmarketcap.com", "api.binance.com", "api.kraken.com",
     "pro-api.coinmarketcap.com"}

\* The proof domains drawn: of the allow-list, containing one of its
\* entries, and unrelated.
Domains == {"api.coingecko.com", "api.coingecko.com.evil.example", "example.org"}

\* trustedDomains.some(d => proofDomain.includes(d)).
IncludesTrustedDomain(domain) == \E d \in trustedDomains : includes(domain, d)

calculateProofScore(input) ==
    IF ~input.hasZkProof THEN Num(4000)
    ELSE IF ~input.proofVerified THEN Num(1000)
    ELSE IF input.proofDomain # "" /\ IncludesTrustedDomain(input.proofDomain)
         THEN Whole(1)
    ELSE Num(9000)

(***************************************************************************)
(* Factor calculators of the web pipeline (lib/evaluate).                  *)
(***************************************************************************)
ORACLE_REPUTATION_Web(key) ==
    CASE key = "chainlink" -> Num(9500)
      [] key = "pyth" -> Num(9000)
      [] key = "api3" -> Num(8500)
      [] key = "band" -> Num(8000)
      [] key = "dia" -> Num(7500)
      [] key = "weatherapi" -> Num(8000)
      [] key = "unknown" -> Num(5000)
      [] key \in InheritedKeys -> NaN
      [] OTHER -> [k |-> "absent", v |-> 0]

calculateSourceScore_Web(oracleName) ==
    LET found == ORACLE_REPUTATION_Web(toLowerCase(oracleName))
    IN  IF found.k = "absent" THEN ORACLE_REPUTATION_Web("unknown") ELSE found

\* Timestamps are in milliseconds; nowMs is Date.now().
calculateTimeScore_Web(nowMs, reportedTimestamp, maxAgeSeconds) ==
    LET ageMs == nowMs - reportedTimestamp
        ageSeconds == FRatio(ageMs, 1000)
        halfLife == FRatio(maxAgeSeconds, 2)
    IN  IF FLt(ageSeconds, Num(0)) THEN Num(5000)
        ELSE IF FGt(ageSeconds, Whole(maxAgeSeconds * 2)) THEN Num(1000)
        ELSE FExp(FDiv(FNeg(ageSeconds), halfLife))

calculateAccuracyScore_Web(primaryValue, referenceValues, tolerancePercent) ==
    LET tol == Whole(tolerancePercent)
        deviationPercent == AccuracyDeviation(primaryValue, referenceValues)
        excessDeviation == FSub(deviationPercent, tol)
    IN  IF Len(referenceValues) = 0 THEN Num(7000)
        ELSE IF FLe(deviationPercent, tol)
             THEN FSub(Whole(1), FMul(FDiv(deviationPercent, tol), Num(1000)))
        ELSE FMax(Num(1000), FMul(Num(9000), FExp(FDiv(FNeg(excessDeviation), tol))))

calculateProofScore_Web(hasProof, verified) ==
    IF ~hasProof THEN Num(4000)
    ELSE IF ~verified THEN Num(1000)
    ELSE Num(9500)

(***************************************************************************)
(* Formula catalog, trust level and aggregation.                           *)
(***************************************************************************)
Weights(s, t, a, p) ==
    [source |-> Num(s), time |-> Num(t), accuracy |-> Num(a), proof |-> Num(p)]

FormulaIds ==
    {"price_feed_v1", "weather_v1", "policy_v1", "prediction_v1", "private_v1", "generic_v1"}

\* The scoring package's catalog.
FORMULAS ==
    [id \in FormulaIds |->
        CASE id = "price_feed_v1" ->
               [id |-> id, weights |-> Weights(2500, 3000, 3000, 1500), minAcceptableScore |-> 70]
          [] id = "weather_v1" ->
               [id |-> id, weights |-> Weights(3500, 2500, 2000, 2000), minAcceptableScore |-> 60]
          [] id = "policy_v1" ->
               [id |-> id, weights |-> Weights(4500, 1000, 1500, 3000), minAcceptableScore |-> 75]
          [] id = "prediction_v1" ->
               [id |-> id, weights |-> Weights(2000, 1500, 2500, 4000), minAcceptableScore |-> 80]
          [] id = "private_v1" ->
               [id |-> id, weights |-> Weights(1500, 1000, 2000, 5500), minAcceptableScore |-> 85]
          [] id = "generic_v1" ->
               [id |-> id, weights |-> Weights(2500, 2500, 2500, 2500), minAcceptableScore |-> 65]]

FormulaIds_Web == {"price_feed_v1", "weather_v1", "generic_v1"}

\* The web pipeline's catalog.
FORMULAS_Web == [id \in FormulaIds_Web |-> FORMULAS[id]]

\* The ladder with the first comparison strict: 90 is no longer high.
getTrustLevel_Strict(score, minAcceptable) ==
    IF FGt(score, Whole(90)) THEN "high"
    ELSE IF FGe(score, Whole(minAcceptable)) THEN "medium"
    ELSE IF FGe(score, Whole(minAcceptable - 15)) THEN "low"
    ELSE "untrusted"

getTrustLevel(score, minAcceptable) ==
    IF FGe(score, Whole(90)) THEN "high"
    ELSE IF FGe(score, Whole(minAcceptable)) THEN "medium"
    ELSE IF FGe(score, Whole(minAcceptable - 15)) THEN "low"
    ELSE "untrusted"

getTrustLevel_Web(score, minAcceptable) ==
    IF FGe(score, Whole(90)) THEN "high"
    ELSE IF FGe(score, Whole(minAcceptable)) THEN "medium"
    ELSE IF FGe(score, Whole(minAcceptable - 15)) THEN "low"
    ELSE "untrusted"

\* The weighted factors, their sum and the final score, as both aggregators
\* compute them.
Weighted(baseScores, weights) ==
    [source |-> FMul(baseScores.source, weights.source),
     time |-> FMul(baseScores.time, weights.time),
     accuracy |-> FMul(baseScores.accuracy, weights.accuracy),
     proof |-> FMul(baseScores.proof, weights.proof)]

SumOf(w) == FAdd(FAdd(FAdd(w.source, w.time), w.accuracy), w.proof)

calculateCredibilityScore(baseScores, formula) ==
    LET weighted == Weighted(baseScores, formula.weights)
        normalizedScore == SumOf(weighted)
        finalScore == FRound(FMul(normalizedScore, Whole(100)))
    IN  [formulaId |-> formula.id,
         finalScore |-> finalScore,
         normalizedScore |-> normalizedScore,
         breakdown |-> [raw |-> baseScores, weighted |-> weighted],
         trustLevel |-> getTrustLevel(finalScore, formula.minAcceptableScore)]

(***************************************************************************)
(* Weight adjustment (ai/selectFormula).                                   *)
(***************************************************************************)
\* x ?? 0 for an optional delta.
OrZero(x) == IF x = Undefined THEN Num(0) ELSE x

Clamp(lo, hi, x) == FMax(Num(lo), FMin(Num(hi), x))

\* The adjustment with the final normalisation left out: deltas applied and
\* clamped, the weights returned as they are.
applyWeightAdjustments_NoNormalize(baseWeights, adjustments) ==
    IF adjustments = Undefined THEN baseWeights
    ELSE [source |-> Clamp(500, 7000, FAdd(baseWeights.source, OrZero(adjustments.source))),
          time |-> Clamp(500, 7000, FAdd(baseWeights.time, OrZero(adjustments.time))),
          accuracy |-> Clamp(500, 7000, FAdd(baseWeights.accuracy, OrZero(adjustments.accuracy))),
          proof |-> Clamp(500, 7000, FAdd(baseWeights.proof, OrZero(adjustments.proof)))]

applyWeightAdjustments(baseWeights, adjustments) ==
    IF adjustments = Undefined THEN baseWeights
    ELSE LET adjusted ==
                 [source |-> Clamp(500, 7000, FAdd(baseWeights.source, OrZero(adjustments.source))),
                  time |-> Clamp(500, 7000, FAdd(baseWeights.time, OrZero(adjustments.time))),
                  accuracy |-> Clamp(500, 7000, FAdd(baseWeights.accuracy, OrZero(adjustments.accuracy))),
                  proof |-> Clamp(500, 7000, FAdd(baseWeights.proof, OrZero(adjustments.proof)))]
             sum == SumOf(adjusted)
         IN  [source |-> FDiv(adjusted.source, sum),
              time |-> FDiv(adjusted.time, sum),
              accuracy |-> FDiv(adjusted.accuracy, sum),
              proof |-> FDiv(adjusted.proof, sum)]

(***************************************************************************)
(* Custom formula generation (ai/generateFormula).                         *)
(***************************************************************************)
\* The branches taken in the opposite order.
TemplateOrder_Reversed ==
    <<"sensitive", "event_outcome", "governance", "environmental", "financial">>

\* The branches of the if / else-if chain of analyzeContext, in its order.
TemplateOrder ==
    <<"financial", "environmental", "governance", "event_outcome", "sensitive">>

\* The keywords of the if / else-if chain of analyzeContext, branch by branch.
TemplateKeywords(template) ==
    CASE template = "financial" -> {"financial", "price", "trading"}
      [] template = "environmental" -> {"environment", "weather", "sensor"}
      [] template = "governance" -> {"governance", "vote", "policy"}
      [] template = "event_outcome" -> {"event", "outcome", "result"}
      [] template = "sensitive" -> {"sensitive", "private", "kyc"}
      [] OTHER -> {}

FORMULA_TEMPLATES(template) ==
    CASE template = "financial" ->
           [baseWeights |-> Weights(2500, 3000, 3000, 1500), minScore |-> 70]
      [] template = "environmental" ->
           [baseWeights |-> Weights(3500, 2500, 2000, 2000), minScore |-> 60]
      [] template = "governance" ->
           [baseWeights |-> Weights(4500, 1000, 1500, 3000), minScore |-> 75]
      [] template = "event_outcome" ->
           [baseWeights |-> Weights(2000, 1500, 2500, 4000), minScore |-> 80]
      [] template = "sensitive" ->
           [baseWeights |-> Weights(1500, 1000, 2000, 5500), minScore |-> 85]
      [] template = "balanced" ->
           [baseWeights |-> Weights(2500, 2500, 2500, 2500), minScore |-> 65]

IncludesAny(reasonLower, words) == \E w \in words : includes(reasonLower, w)

\* The chain read from its last branch: the latest archetype that matches.
RECURSIVE DetectTemplate_LastMatchFrom(_, _)
DetectTemplate_LastMatchFrom(i, reasonLower) ==
    IF i < 1 THEN "balanced"
    ELSE IF IncludesAny(reasonLower, TemplateKeywords(TemplateOrder[i]))
         THEN TemplateOrder[i]
         ELSE DetectTemplate_LastMatchFrom(i - 1, reasonLower)

\* The if / else-if chain from branch i on; 'balanced' when none is taken.
RECURSIVE DetectTemplateFrom(_, _)
DetectTemplateFrom(i, reasonLower) ==
    IF i > Len(TemplateOrder) THEN "balanced"
    ELSE IF IncludesAny(reasonLower, TemplateKeywords(TemplateOrder[i]))
         THEN TemplateOrder[i]
         ELSE DetectTemplateFrom(i + 1, reasonLower)

DetectTemplate_LastMatch(reasonLower) ==
    DetectTemplate_LastMatchFrom(Len(TemplateOrder), reasonLower)

DetectTemplate(reasonLower) == DetectTemplateFrom(1, reasonLower)

\* v when the condition holds, else 0 (the += of a guarded statement).
When(cond, v) == IF cond THEN Num(v) ELSE Num(0)

analyzeContext(context, reason) ==
    LET reasonLower == toLowerCase(reason)
        failed == context.hasZkProof /\ ~context.proofVerified
        verified == context.hasZkProof /\ context.proofVerified
        noProof == ~context.hasZkProof
        noRefs == ~context.referenceDataAvailable
        timeCritical == IncludesAny(reasonLower, {"real-time", "time-critical"})
        distrust == IncludesAny(reasonLower, {"untrusted", "unknown source"})
    IN  [template |-> DetectTemplate(reasonLower),
         adjustments |->
             [source |-> FAdd(FAdd(When(failed, 500), When(noRefs, 300)),
                              When(distrust, 1000)),
              time |-> When(timeCritical, 1000),
              accuracy |-> FAdd(When(noProof, 500), FNeg(When(noRefs, 500))),
              proof |-> FAdd(FAdd(When(verified, 500), FNeg(When(~verified, 500))),
                             When(noRefs, 200))]]

\* Math.round((w / sum) * 100) / 100 for weights that are whole hundredths.
\* Where the exact quotient lies on a half the double quotient falls on
\* either side of it: halfUp says on which.
RoundShare(w, sum, halfUp) ==
    LET n == 100 * w.v
        q == n \div sum.v
        r == n % sum.v
    IN  Num(100 * (IF 2 * r > sum.v \/ (2 * r = sum.v /\ halfUp) THEN q + 1 ELSE q))

\* Math.round(x * 100) / 100.
Round2(x) == FDiv(FRound(FMul(x, Whole(100))), Whole(100))

WeightNames == {"source", "time", "accuracy", "proof"}

\* The generator without its last step: the rounded shares returned as
\* they are.
generateCustomFormula_NoResidual(context, reason, halves, noise, nowMs) ==
    LET a == analyzeContext(context, reason)
        baseTemplate == FORMULA_TEMPLATES(a.template)
        clamped == [k \in WeightNames |->
                       Clamp(500, 6000, FAdd(baseTemplate.baseWeights[k], a.adjustments[k]))]
        sum == SumOf(clamped)
    IN  [id |-> <<"custom", a.template, nowMs>>,
         weights |-> [k \in WeightNames |-> RoundShare(clamped[k], sum, halves[k])],
         minAcceptableScore |-> baseTemplate.minScore,
         applicableDataTypes |-> {context.dataType}]

\* generateCustomFormula.  noise: the double sum of the four rounded shares
\* differs from 1.0 in its last bit although the shares add up to 100
\* hundredths, so that the correction branch is entered.
generateCustomFormula(context, reason, halves, noise, nowMs) ==
    LET a == analyzeContext(context, reason)
        baseTemplate == FORMULA_TEMPLATES(a.template)
        clamped == [k \in WeightNames |->
                       Clamp(500, 6000, FAdd(baseTemplate.baseWeights[k], a.adjustments[k]))]
        sum == SumOf(clamped)
        shares == [k \in WeightNames |-> RoundShare(clamped[k], sum, halves[k])]
        finalSum == SumOf(shares)
        weights ==
            IF finalSum # Whole(1) \/ noise
            THEN [shares EXCEPT
                     !.source = Round2(FAdd(shares.source, FSub(Whole(1), finalSum)))]
            ELSE shares
        reasonLower == toLowerCase(reason)
        strict == IncludesAny(reasonLower, {"strict", "high standard"})
        lenient == IncludesAny(reasonLower, {"lenient", "flexible"})
        minScore == baseTemplate.minScore + (IF strict THEN 10 ELSE 0)
                                          - (IF lenient THEN 10 ELSE 0)
    IN  [id |-> <<"custom", a.template, nowMs>>,
         weights |-> weights,
         minAcceptableScore |-> IF minScore > 95 THEN 95
                                ELSE IF minScore < 50 THEN 50 ELSE minScore,
         applicableDataTypes |-> {context.dataType}]


(***************************************************************************)
(* The objects the modules create when they are loaded: the catalog         *)
(* FORMULAS with one Formula object per key, each holding its own weights   *)
(* object, and FORMULA_TEMPLATES likewise.  An object is known by its path; *)
(* those created by a call are <<"object", n>>.                             *)
(***************************************************************************)
TemplateNames ==
    {"financial", "environmental", "governance", "event_outcome", "sensitive", "balanced"}

ModulePaths ==
    {<<"FORMULAS">>, <<"FORMULA_TEMPLATES">>}
        \cup {<<"FORMULAS", id>> : id \in FormulaIds}
        \cup {<<"FORMULAS", id, "weights">> : id \in FormulaIds}
        \cup {<<"FORMULA_TEMPLATES", t>> : t \in TemplateNames}
        \cup {<<"FORMULA_TEMPLATES", t, "baseWeights">> : t \in TemplateNames}

ModuleObjects ==
    [p \in ModulePaths |->
        IF p = <<"FORMULAS">> THEN [keys |-> FormulaIds]
        ELSE IF p = <<"FORMULA_TEMPLATES">> THEN [keys |-> TemplateNames]
        ELSE IF p[1] = "FORMULAS"
             THEN IF Len(p) = 3 THEN FORMULAS[p[2]].weights
                  ELSE [id |-> FORMULAS[p[2]].id, weights |-> p \o <<"weights">>,
                        minAcceptableScore |-> FORMULAS[p[2]].minAcceptableScore]
             ELSE IF Len(p) = 3 THEN FORMULA_TEMPLATES(p[2]).baseWeights
                  ELSE [baseWeights |-> p \o <<"baseWeights">>,
                        minScore |-> FORMULA_TEMPLATES(p[2]).minScore]]

(***************************************************************************)
(* State.  fn, args, out: one call of a pure function of the libraries     *)
(* (fn = "" until the call is made).  The other variables belong to the    *)
(* running server process and are introduced with its actions.  database   *)
(* and chain are the evaluations table and the registry contract, which     *)
(* only the route handler of the evaluate endpoint reaches; heap holds the   *)
(* objects of the package modules.                                          *)
(***************************************************************************)
VARIABLES fn, args, out,
          env, now, primusSdk, primusInitialized, anthropicClient,
          pendingVerifications, calls, sdkInits, attestations, mockLog,
          pc, request, local, zkResult, response,
          database, chain, heap

\* What no step of the pipeline or of the verifiers touches.
callVars == <<fn, args, out, database, chain, heap>>

processVars == <<env, now, primusSdk, primusInitialized, anthropicClient,
                 pendingVerifications, calls, sdkInits, attestations, mockLog,
                 pc, request, local, zkResult, response>>

vars == <<fn, args, out, env, now, primusSdk, primusInitialized, anthropicClient,
          pendingVerifications, calls, sdkInits, attestations, mockLog,
          pc, request, local, zkResult, response, database, chain, heap>>

None == [k |-> "none", v |-> 0]

\* The server process before any request: module-level state as the modules
\* initialise it, with no environment variable set.
ProcessIdle ==
    /\ env = [appId |-> FALSE, appSecret |-> FALSE, templateId |-> FALSE,
              mode |-> "unset", anthropicToken |-> FALSE]
    /\ now = 0
    /\ primusSdk = "null"
    /\ primusInitialized = FALSE
    /\ anthropicClient = "null"
    /\ pendingVerifications = {}
    /\ calls = 0
    /\ sdkInits = [web |-> 0, pkg |-> 0]
    /\ attestations = [web |-> 0, pkg |-> 0]
    /\ mockLog = {}
    /\ pc = "idle"
    /\ request = None
    /\ local = None
    /\ zkResult = None
    /\ response = None

\* The registry contract: whether CONTRACT_ADDRESS, CONTRACT_RPC_URL and
\* CONTRACT_PRIVATE_KEY are all set, and the results submitted to it.
Chain(configured) == [configured |-> configured, submissions |-> {}]

NoCall ==
    fn = "" /\ out = None /\ database = {} /\ chain = Chain(FALSE) /\ heap = ModuleObjects

\* A pure function is applied once to the arguments drawn by Init.
Apply(name, value) ==
    /\ fn = ""
    /\ fn' = name
    /\ out' = value
    /\ UNCHANGED <<args, processVars, database, chain, heap>>

(***************************************************************************)
(* getTrustLevel on every integer score and threshold.                     *)
(***************************************************************************)
MaxScore == 100

TrustInit ==
    /\ NoCall
    /\ args \in [score : 0..MaxScore, minAcceptable : 0..MaxScore]
    /\ ProcessIdle

TrustPackage ==
    Apply("getTrustLevel", getTrustLevel(Whole(args.score), args.minAcceptable))

TrustWeb ==
    Apply("getTrustLevel_Web", getTrustLevel_Web(Whole(args.score), args.minAcceptable))

TrustNext == TrustPackage \/ TrustWeb

SpecTrust == TrustInit /\ [][TrustNext]_vars

Rank(level) ==
    CASE level = "untrusted" -> 0 [] level = "low" -> 1
      [] level = "medium" -> 2 [] level = "high" -> 3

\* The level the same function gives another score under the same threshold.
LevelAt(s) ==
    IF fn = "getTrustLevel" THEN getTrustLevel(Whole(s), args.minAcceptable)
    ELSE getTrustLevel_Web(Whole(s), args.minAcceptable)

\* C6: for every integer score in 0..100 and every threshold, the level is
\* high iff score >= 90, else medium iff score >= minAcceptable, else low iff
\* score >= minAcceptable - 15, else untrusted; the level never drops when
\* the score rises, score = minAcceptable is at least medium and
\* score = minAcceptable - 15 at least low.
C6_TrustLadder ==
    fn # "" =>
        LET s == args.score
            m == args.minAcceptable
        IN  /\ (out = "high") <=> (s >= 90)
            /\ (out = "medium") <=> (s < 90 /\ s >= m)
            /\ (out = "low") <=> (s < 90 /\ s < m /\ s >= m - 15)
            /\ (out = "untrusted") <=> (s < 90 /\ s < m /\ s < m - 15)
            /\ \A s2 \in s..MaxScore : Rank(LevelAt(s2)) >= Rank(out)
            /\ Rank(LevelAt(m)) >= 2
            /\ (m - 15 >= 0) => Rank(LevelAt(m - 15)) >= 1

\* A score exactly on the high boundary and one exactly on a threshold.
C6_Witness ==
    /\ fn = "getTrustLevel" /\ args.score = 90 /\ out = "high"
    /\ args.minAcceptable = 95


(***************************************************************************)
(* applyWeightAdjustments on base profiles and adjustment records.         *)
(***************************************************************************)
\* A per-factor delta is absent or one of the 2 * DeltaSteps + 1 evenly spaced
\* values of [-0.1, +0.1] (multiples of 0.05 for DeltaSteps = 2).
DeltaSteps == 2

Deltas == {Undefined} \cup {Num((d * 1000) \div DeltaSteps) : d \in -DeltaSteps..DeltaSteps}

Adjustments ==
    {Undefined} \cup [source : Deltas, time : Deltas, accuracy : Deltas, proof : Deltas]

CatalogWeights == {FORMULAS[id].weights : id \in FormulaIds}

\* Base weights that are no profile: a sum of 2.0, and weights outside the
\* band [0.05, 0.7] that sum to 1.0.
UnnormalizedWeights == {Weights(5000, 5000, 5000, 5000), Weights(9000, 500, 300, 200)}

WeightsInit ==
    /\ NoCall
    /\ args \in [baseWeights : CatalogWeights \cup UnnormalizedWeights,
                  adjustments : Adjustments]
    /\ ProcessIdle

ApplyAdjustments ==
    Apply("applyWeightAdjustments",
          applyWeightAdjustments(args.baseWeights, args.adjustments))

WeightsNext == ApplyAdjustments

SpecWeights == WeightsInit /\ [][WeightsNext]_vars

\* |sum of the four weights - 1.0| <= 0.01.
SumsToOne(w) ==
    LET sum == SumOf(w)
    IN  IsNum(sum) /\ Abs(sum.v - Scale) <= Scale \div 100

\* C7: for every weight profile (weights summing to 1.0) and every set of
\* per-factor adjustments within [-0.1, +0.1], absent ones included, the four
\* returned weights sum to 1.0 within 0.01.
C7_AdjustedWeightsSumToOne ==
    (fn = "applyWeightAdjustments" /\ args.baseWeights \in CatalogWeights)
        => SumsToOne(out)

\* A catalog profile adjusted on two factors, so that the clamped sum is
\* not 1.0 before normalisation.
C7_Witness ==
    /\ fn = "applyWeightAdjustments"
    /\ args.baseWeights = FORMULAS["private_v1"].weights
    /\ args.adjustments # Undefined
    /\ args.adjustments.proof = Num(1000)
    /\ args.adjustments.source = Num(1000)
    /\ args.adjustments.time = Undefined
    /\ out.source # args.baseWeights.source

\* C8: applyWeightAdjustments clamps and renormalises unconditionally, so the
\* returned weights sum to 1.0 for every base weights, also when no
\* adjustments are supplied.
C8_AlwaysNormalized == fn = "applyWeightAdjustments" => SumsToOne(out)

(***************************************************************************)
(* The factor calculators on sampled inputs.                               *)
(***************************************************************************)
\* Historical uptimes, in percent; the type asks for 0..100 and the
\* calculator is also given values outside it.
Uptimes == {Undefined, Whole(0), Whole(50), Whole(100), Whole(150), Whole(-50)}

SourceInputs ==
    [op : {"source"}, oracleName : OracleNames, hasApiDocumentation : BOOLEAN,
     isRegulated : BOOLEAN, historicalUptime : Uptimes]

\* Timestamps in seconds.
TimePoints == {0, 30, 270, 300, 301, 600, 900, 1000}

TimeInputs ==
    [op : {"time"}, reportedTimestamp : TimePoints, currentTimestamp : TimePoints,
     maxAcceptableAgeSeconds : {60, 300}]

\* Primary values and reference lists, fixed point (100.4 is 1004000).
PrimaryValues == {0, 1000000, 1004000, 1050000, -1000000, 10000}

ReferenceLists ==
    {<< >>, <<0>>, <<1000000>>, <<1010000, 990000, 1000000>>, <<-10000, 10000>>,
     <<1020000, 1000000>>, <<-1000000>>}

AccuracyInputs ==
    [op : {"accuracy"}, primaryValue : PrimaryValues, referenceValues : ReferenceLists,
     tolerancePercent : {1, 5}]

\* proofDomain "" stands for the absent domain.
ProofInputs ==
    [op : {"proof"}, hasZkProof : BOOLEAN, proofVerified : BOOLEAN,
     proofDomain : Domains \cup {""}]

FactorsInit ==
    /\ NoCall
    /\ args \in SourceInputs \cup TimeInputs \cup AccuracyInputs \cup ProofInputs
    /\ ProcessIdle

SourcePackage ==
    args.op = "source" /\ Apply("calculateSourceScore", calculateSourceScore(args))

TimePackage ==
    args.op = "time" /\ Apply("calculateTimeScore", calculateTimeScore(args))

AccuracyPackage ==
    args.op = "accuracy" /\ Apply("calculateAccuracyScore", calculateAccuracyScore(args))

ProofPackage ==
    args.op = "proof" /\ Apply("calculateProofScore", calculateProofScore(args))

SourceWeb ==
    args.op = "source"
    /\ Apply("calculateSourceScore_Web", calculateSourceScore_Web(args.oracleName))

TimeWeb ==
    args.op = "time"
    /\ Apply("calculateTimeScore_Web",
             calculateTimeScore_Web(args.currentTimestamp * 1000,
                                    args.reportedTimestamp * 1000,
                                    args.maxAcceptableAgeSeconds))

AccuracyWeb ==
    args.op = "accuracy"
    /\ Apply("calculateAccuracyScore_Web",
             calculateAccuracyScore_Web(args.primaryValue, args.referenceValues,
                                        args.tolerancePercent))

ProofWeb ==
    args.op = "proof"
    /\ Apply("calculateProofScore_Web",
             calculateProofScore_Web(args.hasZkProof, args.proofVerified))

FactorsNext ==
    \/ SourcePackage \/ TimePackage \/ AccuracyPackage \/ ProofPackage
    \/ SourceWeb \/ TimeWeb \/ AccuracyWeb \/ ProofWeb

SpecFactors == FactorsInit /\ [][FactorsNext]_vars

\* C9: every factor calculator returns a value in [0, 1] for every input
\* (any oracle name, flags and uptime; any timestamps and positive max age;
\* any primary value and reference list; any proof flags and domain).
C9_FactorsInUnitInterval == fn # "" => InUnit(out)

(***************************************************************************)
(* The server process: requests, the verification result and the response. *)
(*   env                  the environment variables that are set           *)
(*   now                  Date.now(), in milliseconds                      *)
(*   primusSdk, primusInitialized, anthropicClient, pendingVerifications   *)
(*                        module-level state of the web application        *)
(*   pc, request, local   the call in flight: its position (an await it is *)
(*                        suspended at), its argument and its locals       *)
(*   zkResult, response   what the verifier and the pipeline returned      *)
(*   calls, sdkInits, attestations, mockLog                                *)
(*                        history: calls made, sdk.init and                *)
(*                        sdk.startAttestation calls per entry point, and  *)
(*                        every result mockVerification has returned       *)
(***************************************************************************)
\* Calls made in one behaviour.
MaxEvals == 2

\* The clock advances in steps of TickMs, at most MaxTicks times.
MaxTicks == 1

TickMs == 400 * 1000

Env(appId, appSecret, templateId, mode, anthropicToken) ==
    [appId |-> appId, appSecret |-> appSecret, templateId |-> templateId,
     mode |-> mode, anthropicToken |-> anthropicToken]

\* Deployments: nothing set; everything set for production; production
\* without a template id; credentials with PRIMUS_MODE=mock and with
\* PRIMUS_MODE unset; an app id without its secret.
Environments ==
    {Env(FALSE, FALSE, FALSE, "unset", FALSE),
     Env(TRUE, TRUE, TRUE, "production", TRUE),
     Env(TRUE, TRUE, FALSE, "production", FALSE),
     Env(TRUE, TRUE, TRUE, "mock", FALSE),
     Env(TRUE, TRUE, TRUE, "unset", FALSE),
     Env(TRUE, FALSE, TRUE, "production", FALSE)}

\* A dataValue object; a field that is not a number is Undefined.
Object(price, temperature, timestamp) ==
    [k |-> "object", price |-> price, temperature |-> temperature, timestamp |-> timestamp]

\* {"price":100.4}, {"price":100}, {"price":100,"timestamp":0},
\* {"temperature":22} and {"status":"ok"}.
DV_Price == Object(Num(1004000), Undefined, Undefined)

DV_Round == Object(Num(1000000), Undefined, Undefined)

DV_Stamped == Object(Num(1000000), Undefined, Num(0))

DV_Weather == Object(Undefined, Num(220000), Undefined)

DV_Status == Object(Undefined, Undefined, Undefined)

Array(values) == [k |-> "array", items |-> values]

Req(oracleName, dataType, dataValue, sourceUrl, referenceValues) ==
    [oracleName |-> oracleName, dataType |-> dataType, dataValue |-> dataValue,
     sourceUrl |-> sourceUrl, referenceValues |-> referenceValues]

CoinGecko == "https://api.coingecko.com/api/v3/simple/price"

\* Request bodies, well formed and not: the last three have no dataValue, an
\* oracleName and a dataType that is not a string.
Requests ==
    {Req("Chainlink", "price_feed", DV_Price, CoinGecko, Array(<<1000000>>)),
     Req("Chainlink", "price_feed", DV_Round, CoinGecko,
         Array(<<1010000, 990000, 1000000>>)),
     Req("Chainlink", "price_feed", DV_Stamped, CoinGecko, Array(<<1000000>>)),
     Req("UnknownOracle", "weather", DV_Weather, "", Undefined),
     Req("pyth", "custom", DV_Status, "", Array(<<0>>)),
     Req("Chainlink", "price_feed", Undefined, CoinGecko, Undefined),
     Req(NotAString, "price_feed", DV_Price, CoinGecko, Undefined),
     Req("Chainlink", NotAString, DV_Price, CoinGecko, Undefined)}

\* The random suffix of a request id.
Nonces == {"k3x9f", "q7m2c"}

\* sha256 as a collision-free function: the digest names its input.
sha256(input) == [sha256 |-> input]

\* The empty proofHash ''.
EmptyHash == [empty |-> TRUE]

\* parseInt(sha256(seed).substring(0, 8), 16) % 10 for the seeds drawn, as
\* node computes it; seed is oracleName + dataType + JSON.stringify(dataValue).
HashNumMod10(seed) ==
    CASE seed = <<"Chainlink", "price_feed", DV_Price>> -> 5
      [] seed = <<"Chainlink", "price_feed", DV_Round>> -> 0
      [] seed = <<"Chainlink", "price_feed", DV_Stamped>> -> 1
      [] seed = <<"UnknownOracle", "weather", DV_Weather>> -> 7
      [] seed = <<"pyth", "custom", DV_Status>> -> 6
      [] OTHER -> 3

mockVerification(data, nowMs) ==
    LET seed == <<data.oracleName, data.dataType, data.dataValue>>
    IN  [success |-> TRUE,
         verified |-> (HashNumMod10(seed) # 0),
         proofHash |-> sha256(<<seed, nowMs>>),
         timestamp |-> nowMs,
         mode |-> "mock",
         error |-> "",
         by |-> "mockVerification"]

\* The failure result of realPrimusVerification.
RealFailure(timestamp, message) ==
    [success |-> FALSE, verified |-> FALSE, proofHash |-> EmptyHash,
     timestamp |-> timestamp, mode |-> "real", error |-> message,
     by |-> "realPrimusVerification"]

\* The catch block of realPrimusVerification.
RealCatch(data, timestamp, message, nowMs) ==
    IF includes(message, "window") \/ includes(message, "postMessage")
    THEN mockVerification(data, nowMs)
    ELSE RealFailure(timestamp, message)

\* Messages of the errors the SDK raises.
SdkErrors == {"window is not defined", "postMessage target not found", "network error"}

\* The sweep with the maximum age taken in seconds: 5 * 60 compared with
\* milliseconds.
cleanupOldEntries_MaxAgeInSeconds(entries, nowMs) ==
    {e \in entries : ~(nowMs - e.createdAt > 5 * 60)}

\* The entries the sweep keeps: those not older than 5 minutes.
cleanupOldEntries(entries, nowMs) ==
    {e \in entries : ~(nowMs - e.createdAt > 5 * 60 * 1000)}

\* Map.set after the cleanup: an entry with the same key is replaced.
storePendingVerification(entries, requestId, data, nowMs) ==
    {e \in cleanupOldEntries(entries, nowMs) : e.requestId # requestId}
        \cup {[requestId |-> requestId, data |-> data, createdAt |-> nowMs]}

selectFormulaRuleBased(dataType) ==
    LET type == toLowerCase(dataType)
    IN  IF includes(type, "price") \/ includes(type, "token") \/ includes(type, "exchange")
        THEN "price_feed_v1"
        ELSE IF includes(type, "weather") \/ includes(type, "temperature")
        THEN "weather_v1"
        ELSE "generic_v1"

\* The first error the synchronous opening of evaluateOracleData raises on
\* this request, "" when it raises none.
OpeningError(req) ==
    IF req.dataValue.k = "undefined"
    THEN "Cannot read properties of undefined (reading 'price')"
    ELSE IF req.oracleName = NotAString THEN "oracleName.toLowerCase is not a function"
    ELSE IF req.dataType = NotAString THEN "request.dataType.includes is not a function"
    ELSE ""

\* The three factor scores evaluateOracleData computes before verification.
OpeningScores(req, timestamp, nowMs) ==
    LET dataValue == req.dataValue
        primaryValue == IF dataValue.price.k = "num" THEN dataValue.price.v
                        ELSE IF dataValue.temperature.k = "num" THEN dataValue.temperature.v
                        ELSE 0
        reportedTimestamp == IF dataValue.timestamp.k = "num" THEN dataValue.timestamp.v
                             ELSE timestamp - 60000
        referenceValues == IF req.referenceValues.k = "array" THEN req.referenceValues.items
                           ELSE << >>
    IN  [source |-> calculateSourceScore_Web(req.oracleName),
         time |-> calculateTimeScore_Web(nowMs, reportedTimestamp, 300),
         accuracy |-> calculateAccuracyScore_Web(primaryValue, referenceValues,
                          IF includes(req.dataType, "weather") THEN 5 ELSE 1)]

\* The breakdown of a failed response: every raw and weighted score is 0.
ZeroBreakdown ==
    LET zero == [source |-> Num(0), time |-> Num(0), accuracy |-> Num(0), proof |-> Num(0)]
    IN  [raw |-> zero, weighted |-> zero]

\* The error leaves evaluateOracleData: the promise is rejected.
FailedResponse_Rethrow(timestamp, requestId, message) ==
    [k |-> "rejected", v |-> 0]

\* The catch block of evaluateOracleData; error '' stands for no error field.
FailedResponse(timestamp, requestId, message) ==
    [k |-> "response", success |-> FALSE, requestId |-> requestId, score |-> Whole(0),
     trustLevel |-> "untrusted", breakdown |-> ZeroBreakdown,
     formulaId |-> "error", zkVerified |-> FALSE,
     proofHash |-> EmptyHash, timestamp |-> timestamp, aiReasoning |-> "",
     error |-> message]

\* Lines 241-253 of evaluateOracleData: the formula found under the selected
\* id (generic_v1 when there is none) and the score it gives.
Aggregate(formulaId, baseScores) ==
    LET formula == IF formulaId \in FormulaIds_Web THEN FORMULAS_Web[formulaId]
                   ELSE FORMULAS_Web["generic_v1"]
        weighted == Weighted(baseScores, formula.weights)
        finalScore == FRound(FMul(SumOf(weighted), Whole(100)))
    IN  [formulaId |-> formula.id, finalScore |-> finalScore,
         trustLevel |-> getTrustLevel_Web(finalScore, formula.minAcceptableScore),
         breakdown |-> [raw |-> baseScores, weighted |-> weighted]]

SuccessResponse(call, result, zk, aiReasoning) ==
    [k |-> "response", success |-> TRUE, requestId |-> call.requestId, score |-> result.finalScore,
     trustLevel |-> result.trustLevel, breakdown |-> result.breakdown,
     formulaId |-> result.formulaId,
     zkVerified |-> zk.verified, proofHash |-> zk.proofHash,
     timestamp |-> call.timestamp, aiReasoning |-> aiReasoning, error |-> ""]

\* The package's verifier takes the data and an optional user address; its
\* options may name a template.
Str(s) == [k |-> "string", chars |-> s]

UserAddresses == {Undefined, Str(""), Str("0x52908400098527886E0F7030069857D2E4169EE7")}

PackageCalls ==
    [data : {Req("Chainlink", "price_feed", DV_Price, CoinGecko, Undefined)},
     userAddress : UserAddresses, templateId : BOOLEAN]

\* The client without the credential test: a mock only in mock mode.
createZkTlsClient_IgnoresCredentials(e) ==
    LET mode == IF e.mode = "unset" THEN "mock" ELSE e.mode
    IN  IF mode = "mock"
        THEN [class |-> "MockZkTlsClient", mode |-> mode, templateId |-> FALSE]
        ELSE [class |-> "PrimusZkTlsClient", mode |-> mode, templateId |-> e.templateId]

createZkTlsClient(e) ==
    LET mode == IF e.mode = "unset" THEN "mock" ELSE e.mode
    IN  IF mode = "mock" \/ ~e.appId \/ ~e.appSecret
        THEN [class |-> "MockZkTlsClient", mode |-> mode, templateId |-> FALSE]
        ELSE [class |-> "PrimusZkTlsClient", mode |-> mode, templateId |-> e.templateId]

\* '0x' and the first 40 digits of sha256(seed), for the oracle name drawn.
generatePlaceholderAddress(seed) ==
    CASE seed = "Chainlink" -> "0x9c98cdba80ab7f718eb8d531b4502e766397c1e4"
      [] OTHER -> "0x"

\* MockZkTlsClient.fullVerification: the attestation carries the recipient,
\* the time it was made and a signature over both.
MockClientResult(userAddress, timestamp, nowMs) ==
    [success |-> TRUE,
     verified |-> (userAddress.chars # ""),
     proofHash |-> sha256(<<userAddress, nowMs, sha256(<<userAddress, nowMs>>)>>),
     timestamp |-> timestamp,
     mode |-> "absent",
     error |-> "",
     by |-> "MockZkTlsClient"]

\* The catch block of PrimusZkTlsClient.fullVerification.
ClientFailure(timestamp, message) ==
    [success |-> FALSE, verified |-> FALSE, proofHash |-> EmptyHash,
     timestamp |-> timestamp, mode |-> "absent", error |-> message,
     by |-> "PrimusZkTlsClient"]

\* verifyOracleDataSource of the package when client.init() is false.
InitFailure(nowMs) ==
    [success |-> FALSE, verified |-> FALSE, proofHash |-> EmptyHash,
     timestamp |-> nowMs, mode |-> "absent",
     error |-> "Failed to initialize zkTLS client", by |-> "verifyOracleDataSource"]

Init ==
    /\ NoCall
    /\ args = None
    /\ env \in Environments
    /\ now = 0
    /\ primusSdk = "null"
    /\ primusInitialized = FALSE
    /\ anthropicClient = "null"
    /\ pendingVerifications = {}
    /\ calls = 0
    /\ sdkInits = [web |-> 0, pkg |-> 0]
    /\ attestations = [web |-> 0, pkg |-> 0]
    /\ mockLog = {}
    /\ pc = "idle"
    /\ request = None
    /\ local = None
    /\ zkResult = None
    /\ response = None

\* Positions at which the call waits for a timer or for the outside world.
Waiting ==
    {"idle", "web_import", "web_init", "web_sign", "web_attest", "ai_select",
     "ai_analysis", "pkg_mock_init", "pkg_mock_run", "pkg_import", "pkg_init",
     "pkg_sign", "pkg_attest"}

\* Time passes.
Tick ==
    /\ pc \in Waiting
    /\ now < MaxTicks * TickMs
    /\ now' = now + TickMs
    /\ UNCHANGED <<callVars, env, primusSdk, primusInitialized, anthropicClient,
                   pendingVerifications, calls, sdkInits, attestations, mockLog,
                   pc, request, local, zkResult, response>>

\* evaluateOracleData returns.
Respond(r) ==
    /\ response' = r
    /\ pc' = "idle"
    /\ local' = None

\* An error reaches the catch block of evaluateOracleData.
Fail(message) == Respond(FailedResponse(local.timestamp, local.requestId, message))

\* evaluateOracleData up to its first await: the factor scores, the cache
\* entry and the call of the verifier.
EvaluateOpening(req, nonce) ==
    /\ pc = "idle"
    /\ calls < MaxEvals
    /\ calls' = calls + 1
    /\ request' = [entry |-> "evaluateOracleData", body |-> req]
    /\ zkResult' = None
    /\ LET timestamp == now
           requestId == <<timestamp, nonce>>
       IN  IF OpeningError(req) # ""
           THEN /\ response' = FailedResponse(timestamp, requestId, OpeningError(req))
                /\ UNCHANGED <<pc, local, pendingVerifications>>
           ELSE /\ response' = None
                /\ pendingVerifications' =
                       storePendingVerification(pendingVerifications, requestId, req, now)
                /\ local' = [entry |-> "web", timestamp |-> timestamp,
                             requestId |-> requestId,
                             baseScores |-> OpeningScores(req, timestamp, now),
                             zkTimestamp |-> now, result |-> None]
                /\ pc' = "verify"
    /\ UNCHANGED <<env, now, primusSdk, primusInitialized, anthropicClient,
                   sdkInits, attestations, mockLog>>

\* evaluateOracleData called by itself.
Evaluate(req, nonce) == EvaluateOpening(req, nonce) /\ UNCHANGED callVars

\* initPrimusSdk up to its first await.
initPrimusSdk ==
    IF ~env.appId \/ ~env.appSecret THEN "web_dispatch" ELSE "web_import"

\* verifyOracleDataSource of the web application: initialise the SDK once.
VerifyOracleDataSource_Web ==
    /\ pc = "verify"
    /\ pc' = IF ~primusInitialized /\ env.appId /\ env.appSecret
             THEN initPrimusSdk ELSE "web_dispatch"
    /\ UNCHANGED <<callVars, env, now, primusSdk, primusInitialized, anthropicClient,
                   pendingVerifications, calls, sdkInits, attestations, mockLog,
                   request, local, zkResult, response>>

\* The dynamic import resolves and sdk.init is called, or the import (or the
\* constructor) throws and initPrimusSdk returns false.
ImportSdk_Web(outcome) ==
    /\ pc = "web_import"
    /\ IF outcome = "loaded"
       THEN /\ primusSdk' = "sdk"
            /\ sdkInits' = [sdkInits EXCEPT !.web = @ + 1]
            /\ pc' = "web_init"
       ELSE /\ pc' = "web_dispatch"
            /\ UNCHANGED <<primusSdk, sdkInits>>
    /\ UNCHANGED <<callVars, env, now, primusInitialized, anthropicClient,
                   pendingVerifications, calls, attestations, mockLog,
                   request, local, zkResult, response>>

\* sdk.init settles: primusInitialized = !!result, unchanged when it throws.
InitSdk_Web(outcome) ==
    /\ pc = "web_init"
    /\ primusInitialized' = IF outcome = "throws" THEN primusInitialized
                            ELSE (outcome = "truthy")
    /\ pc' = "web_dispatch"
    /\ UNCHANGED <<callVars, env, now, primusSdk, anthropicClient,
                   pendingVerifications, calls, sdkInits, attestations, mockLog,
                   request, local, zkResult, response>>

\* verifyOracleDataSource hands its result to evaluateOracleData.
ReturnZk(result) ==
    /\ zkResult' = result
    /\ mockLog' = IF result.by = "mockVerification"
                  THEN mockLog \cup {[oracleName |-> request.body.oracleName,
                                      dataType |-> request.body.dataType,
                                      dataValue |-> request.body.dataValue,
                                      verified |-> result.verified,
                                      proofHash |-> result.proofHash]}
                  ELSE mockLog
    /\ pc' = "zk_done"

\* The real path when the SDK is initialised (up to the await of sdk.sign),
\* the mock path otherwise.  outcome: the synchronous SDK calls succeed or
\* throw the named error.
Dispatch_Web(outcome) ==
    /\ pc = "web_dispatch"
    /\ IF primusInitialized /\ primusSdk # "null"
       THEN IF ~env.templateId
            THEN ReturnZk(RealFailure(now, "Missing PRIMUS_TEMPLATE_ID")) /\ UNCHANGED local
            ELSE IF outcome = "ok"
            THEN /\ pc' = "web_sign"
                 /\ local' = [local EXCEPT !.zkTimestamp = now]
                 /\ UNCHANGED <<zkResult, mockLog>>
            ELSE ReturnZk(RealCatch(request.body, now, outcome, now)) /\ UNCHANGED local
       ELSE ReturnZk(mockVerification(request.body, now)) /\ UNCHANGED local
    /\ UNCHANGED <<callVars, env, now, primusSdk, primusInitialized, anthropicClient,
                   pendingVerifications, calls, sdkInits, attestations, response,
                   request>>

\* sdk.sign settles; on success sdk.startAttestation is called.
Sign_Web(outcome) ==
    /\ pc = "web_sign"
    /\ IF outcome = "ok"
       THEN /\ attestations' = [attestations EXCEPT !.web = @ + 1]
            /\ pc' = "web_attest"
            /\ UNCHANGED <<zkResult, mockLog>>
       ELSE /\ ReturnZk(RealCatch(request.body, local.zkTimestamp, outcome, now))
            /\ UNCHANGED attestations
    /\ UNCHANGED <<callVars, env, now, primusSdk, primusInitialized, anthropicClient,
                   pendingVerifications, calls, sdkInits, request, local, response>>

\* sdk.startAttestation settles: with an attestation whose signature checks
\* ("valid") or does not ("invalid"), or with an error.
AttestationCompletes_Web(outcome) ==
    /\ pc = "web_attest"
    /\ IF outcome \in {"valid", "invalid"}
       THEN ReturnZk([success |-> TRUE, verified |-> (outcome = "valid"),
                      proofHash |-> sha256(<<"attestation", attestations.web>>),
                      timestamp |-> local.zkTimestamp, mode |-> "real", error |-> "",
                      by |-> "realPrimusVerification"])
       ELSE ReturnZk(RealCatch(request.body, local.zkTimestamp, outcome, now))
    /\ UNCHANGED <<callVars, env, now, primusSdk, primusInitialized, anthropicClient,
                   pendingVerifications, calls, sdkInits, attestations, request,
                   local, response>>

\* evaluateOracleData from the selected formula to the await of
\* generateAIAnalysis, or to its return when there is no AI client.
Continue(formulaId, hasClient) ==
    LET baseScores == [source |-> local.baseScores.source,
                       time |-> local.baseScores.time,
                       accuracy |-> local.baseScores.accuracy,
                       proof |-> calculateProofScore_Web(zkResult.success,
                                                         zkResult.verified)]
        result == Aggregate(formulaId, baseScores)
    IN  IF formulaId \in InheritedKeys
        THEN Fail("Cannot read properties of undefined (reading 'source')")
        ELSE IF hasClient
        THEN /\ pc' = "ai_analysis"
             /\ local' = [local EXCEPT !.result = result]
             /\ UNCHANGED response
        ELSE Respond(SuccessResponse(local, result, zkResult, "rule-based"))

\* After the verifier: selectFormulaWithAI is called.  getAnthropicClient
\* returns the cached client, null without a token, or constructs the client
\* (outcome "constructed") unless the constructor throws.
SelectFormula(outcome) ==
    /\ pc = "zk_done"
    /\ IF anthropicClient # "null"
       THEN /\ pc' = "ai_select"
            /\ UNCHANGED <<anthropicClient, local, response>>
       ELSE IF ~env.anthropicToken
       THEN /\ Continue(selectFormulaRuleBased(request.body.dataType), FALSE)
            /\ UNCHANGED anthropicClient
       ELSE IF outcome = "constructed"
       THEN /\ anthropicClient' = "client"
            /\ pc' = "ai_select"
            /\ UNCHANGED <<local, response>>
       ELSE /\ Fail("The Anthropic client could not be constructed")
            /\ UNCHANGED anthropicClient
    /\ UNCHANGED <<callVars, env, now, primusSdk, primusInitialized,
                   pendingVerifications, calls, sdkInits, attestations, mockLog,
                   request, zkResult>>

\* Formula ids the AI reply may carry: the catalog's, one the web catalog does
\* not have, none at all and the name of an inherited member.
AiFormulaIds == FormulaIds_Web \cup {"policy_v1", "undefined", "constructor"}

\* client.messages.create settles for selectFormulaWithAI: the reply parses
\* to a formula id, or the call or the parse throws and the rules decide.
SelectFormulaReply(outcome) ==
    /\ pc = "ai_select"
    /\ Continue(IF outcome = "throws" THEN selectFormulaRuleBased(request.body.dataType)
                ELSE outcome, TRUE)
    /\ UNCHANGED <<callVars, env, now, primusSdk, primusInitialized, anthropicClient,
                   pendingVerifications, calls, sdkInits, attestations, mockLog,
                   request, zkResult>>

\* client.messages.create settles for generateAIAnalysis.
AnalysisReply(outcome) ==
    /\ pc = "ai_analysis"
    /\ Respond(SuccessResponse(local, local.result, zkResult,
                               IF outcome = "throws" THEN "rule-based" ELSE "ai"))
    /\ UNCHANGED <<callVars, env, now, primusSdk, primusInitialized, anthropicClient,
                   pendingVerifications, calls, sdkInits, attestations, mockLog,
                   request, zkResult>>

\* verifyOracleDataSource of the package returns.
ReturnPkg(result) ==
    /\ zkResult' = result
    /\ pc' = "idle"
    /\ local' = None

\* verifyOracleDataSource of the package up to the await of client.init().
VerifyOracleDataSource(call) ==
    /\ pc = "idle"
    /\ calls < MaxEvals
    /\ calls' = calls + 1
    /\ request' = [entry |-> "verifyOracleDataSource", body |-> call]
    /\ zkResult' = None
    /\ response' = None
    /\ LET client == createZkTlsClient(env)
       IN  /\ local' = [entry |-> "pkg", client |-> client, timestamp |-> now]
           /\ pc' = IF client.class = "MockZkTlsClient" THEN "pkg_mock_init"
                    ELSE IF client.mode = "mock" THEN "pkg_init"
                    ELSE "pkg_import"
    /\ UNCHANGED <<callVars, env, now, primusSdk, primusInitialized, anthropicClient,
                   pendingVerifications, sdkInits, attestations, mockLog>>

\* The user address fullVerification is given.
UserAddressOf(call) ==
    IF call.userAddress.k = "undefined"
    THEN Str(generatePlaceholderAddress(call.data.oracleName))
    ELSE call.userAddress

\* MockZkTlsClient.init: a timer, then fullVerification reads the clock.
MockInit ==
    /\ pc = "pkg_mock_init"
    /\ pc' = "pkg_mock_run"
    /\ local' = [local EXCEPT !.timestamp = now]
    /\ UNCHANGED <<callVars, env, now, primusSdk, primusInitialized, anthropicClient,
                   pendingVerifications, calls, sdkInits, attestations, mockLog,
                   request, zkResult, response>>

\* MockZkTlsClient.fullVerification: timers only.
MockFullVerification ==
    /\ pc = "pkg_mock_run"
    /\ ReturnPkg(MockClientResult(UserAddressOf(request.body), local.timestamp, now))
    /\ UNCHANGED <<callVars, env, now, primusSdk, primusInitialized, anthropicClient,
                   pendingVerifications, calls, sdkInits, attestations, mockLog,
                   request, response>>

\* PrimusZkTlsClient.init: the import resolves and sdk.init is called, or it
\* throws and init returns false.
ImportSdk_Pkg(outcome) ==
    /\ pc = "pkg_import"
    /\ IF outcome = "loaded"
       THEN /\ sdkInits' = [sdkInits EXCEPT !.pkg = @ + 1]
            /\ pc' = "pkg_init"
            /\ UNCHANGED <<zkResult, local>>
       ELSE /\ ReturnPkg(InitFailure(now))
            /\ UNCHANGED sdkInits
    /\ UNCHANGED <<callVars, env, now, primusSdk, primusInitialized, anthropicClient,
                   pendingVerifications, calls, attestations, mockLog,
                   request, response>>

\* client.init() settles.  When it is true fullVerification runs up to the
\* await of sdk.sign; sdk is null for a client in mock mode.
InitSdk_Pkg(outcome, sync) ==
    /\ pc = "pkg_init"
    /\ IF local.client.mode # "mock" /\ outcome # "truthy"
       THEN ReturnPkg(InitFailure(now))
       ELSE IF local.client.mode = "mock"
       THEN ReturnPkg(ClientFailure(now, "Primus SDK not initialized"))
       ELSE IF ~(request.body.templateId \/ local.client.templateId)
       THEN ReturnPkg(ClientFailure(now, "Template ID is required"))
       ELSE IF sync # "ok"
       THEN ReturnPkg(ClientFailure(now, sync))
       ELSE /\ pc' = "pkg_sign"
            /\ local' = [local EXCEPT !.timestamp = now]
            /\ UNCHANGED zkResult
    /\ UNCHANGED <<callVars, env, now, primusSdk, primusInitialized, anthropicClient,
                   pendingVerifications, calls, sdkInits, attestations, mockLog,
                   request, response>>

\* sdk.sign settles; on success sdk.startAttestation is called.
Sign_Pkg(outcome) ==
    /\ pc = "pkg_sign"
    /\ IF outcome = "ok"
       THEN /\ attestations' = [attestations EXCEPT !.pkg = @ + 1]
            /\ pc' = "pkg_attest"
            /\ UNCHANGED <<zkResult, local>>
       ELSE /\ ReturnPkg(ClientFailure(local.timestamp, outcome))
            /\ UNCHANGED attestations
    /\ UNCHANGED <<callVars, env, now, primusSdk, primusInitialized, anthropicClient,
                   pendingVerifications, calls, sdkInits, mockLog, request, response>>

\* sdk.startAttestation settles and sdk.verifyAttestation checks the result.
AttestationCompletes_Pkg(outcome) ==
    /\ pc = "pkg_attest"
    /\ IF outcome \in {"valid", "invalid"}
       THEN ReturnPkg([success |-> TRUE, verified |-> (outcome = "valid"),
                       proofHash |-> sha256(<<"attestation", attestations.pkg>>),
                       timestamp |-> local.timestamp, mode |-> "absent", error |-> "",
                       by |-> "PrimusZkTlsClient"])
       ELSE ReturnPkg(ClientFailure(local.timestamp, outcome))
    /\ UNCHANGED <<callVars, env, now, primusSdk, primusInitialized, anthropicClient,
                   pendingVerifications, calls, sdkInits, attestations, mockLog,
                   request, response>>

\* The steps the process takes by itself or on a reply that arrives.
Step ==
    \/ VerifyOracleDataSource_Web
    \/ \E outcome \in {"loaded", "throws"} : ImportSdk_Web(outcome)
    \/ \E outcome \in {"truthy", "falsy", "throws"} : InitSdk_Web(outcome)
    \/ \E outcome \in {"ok"} \cup SdkErrors : Dispatch_Web(outcome)
    \/ \E outcome \in {"ok"} \cup SdkErrors : Sign_Web(outcome)
    \/ \E outcome \in {"constructed", "throws"} : SelectFormula(outcome)
    \/ \E outcome \in AiFormulaIds \cup {"throws"} : SelectFormulaReply(outcome)
    \/ \E outcome \in {"text", "throws"} : AnalysisReply(outcome)
    \/ MockInit
    \/ MockFullVerification
    \/ \E outcome \in {"loaded", "throws"} : ImportSdk_Pkg(outcome)
    \/ \E outcome \in {"truthy", "falsy", "throws"}, sync \in {"ok"} \cup SdkErrors :
          InitSdk_Pkg(outcome, sync)
    \/ \E outcome \in {"ok"} \cup SdkErrors : Sign_Pkg(outcome)

\* The attestation service answers.
AttestationCompletes ==
    \/ \E outcome \in {"valid", "invalid"} \cup SdkErrors : AttestationCompletes_Web(outcome)
    \/ \E outcome \in {"valid", "invalid"} \cup SdkErrors : AttestationCompletes_Pkg(outcome)

Next ==
    \/ Tick
    \/ \E req \in Requests, nonce \in Nonces : Evaluate(req, nonce)
    \/ \E call \in PackageCalls : VerifyOracleDataSource(call)
    \/ Step
    \/ AttestationCompletes

Spec == Init /\ [][Next]_vars

\* The web pipeline alone in the production deployment, on two requests.
\* Every step the process can take is taken; the attestation service may
\* never answer.
FairInit == Init /\ env = Env(TRUE, TRUE, TRUE, "production", TRUE)

FairRequests ==
    {Req("Chainlink", "price_feed", DV_Price, CoinGecko, Array(<<1000000>>)),
     Req("Chainlink", "price_feed", Undefined, CoinGecko, Undefined)}

FairStep ==
    \/ VerifyOracleDataSource_Web
    \/ \E outcome \in {"loaded", "throws"} : ImportSdk_Web(outcome)
    \/ \E outcome \in {"truthy", "falsy", "throws"} : InitSdk_Web(outcome)
    \/ \E outcome \in {"ok"} \cup SdkErrors : Dispatch_Web(outcome)
    \/ \E outcome \in {"ok"} \cup SdkErrors : Sign_Web(outcome)
    \/ \E outcome \in {"constructed", "throws"} : SelectFormula(outcome)
    \/ \E outcome \in AiFormulaIds \cup {"throws"} : SelectFormulaReply(outcome)
    \/ \E outcome \in {"text", "throws"} : AnalysisReply(outcome)

FairNext ==
    \/ \E req \in FairRequests, nonce \in Nonces : Evaluate(req, nonce)
    \/ FairStep
    \/ \E outcome \in {"valid", "invalid"} \cup SdkErrors : AttestationCompletes_Web(outcome)

FairSpec == FairInit /\ [][FairNext]_vars /\ WF_vars(FairStep)

\* C1: evaluateOracleData never rejects.  Every call that has returned left
\* a structured response, whatever the request, the verifier, the formula
\* selector and the analysis generator did; a request whose handling raises
\* gets a failed response; and every failed response has success = false,
\* score 0, trust level 'untrusted' and a populated error field.
C1_EvaluateNeverRejects ==
    /\ response # None => response.k = "response"
    /\ (pc = "idle" /\ request # None /\ request.entry = "evaluateOracleData")
           => response # None
    /\ (response # None /\ response.k = "response") =>
           /\ OpeningError(request.body) # "" => ~response.success
           /\ ~response.success =>
                  /\ response.score = Whole(0)
                  /\ response.trustLevel = "untrusted"
                  /\ response.error # ""

\* A step after the verification raised (the formula selector or the
\* aggregation) and the call returned a failed response.
C1_Witness ==
    /\ response # None
    /\ response.k = "response"
    /\ ~response.success
    /\ zkResult # None

\* C2: when the real attestation path fails, the caller gets the simulated
\* result, never a failure: no verification result has success = false, and a
\* result tagged mode 'real' comes from an attestation that completed.
C2_RealFailureFallsBackToMock ==
    zkResult # None =>
        /\ zkResult.success
        /\ zkResult.mode = "real" => zkResult.proofHash # EmptyHash

\* C3: without PRIMUS_APP_ID or PRIMUS_APP_SECRET no verifier initialises
\* the SDK or starts an attestation, and every verification result is the
\* simulated one (success = true, mode 'mock' where the result has a mode);
\* with the client mode 'mock' (PRIMUS_MODE=mock or unset) the same holds of
\* the verifier that is built on the client.
C3_NoCredentialsMeansMock ==
    /\ (~env.appId \/ ~env.appSecret) =>
           /\ sdkInits = [web |-> 0, pkg |-> 0]
           /\ attestations = [web |-> 0, pkg |-> 0]
           /\ primusSdk = "null"
           /\ zkResult # None =>
                  /\ zkResult.success
                  /\ zkResult.by \in {"mockVerification", "MockZkTlsClient"}
                  /\ zkResult.by = "mockVerification" => zkResult.mode = "mock"
    /\ env.mode \in {"mock", "unset"} =>
           /\ sdkInits.pkg = 0
           /\ attestations.pkg = 0
           /\ (zkResult # None /\ request.entry = "verifyOracleDataSource") =>
                  /\ zkResult.success
                  /\ zkResult.by = "MockZkTlsClient"

\* A verification has returned the simulated result in a deployment that
\* lacks a credential.
C3_Witness ==
    /\ ~env.appId \/ ~env.appSecret
    /\ zkResult # None
    /\ zkResult.mode = "mock"
    /\ calls = MaxEvals

\* C4: two results of mockVerification for the same (oracleName, dataType,
\* dataValue) have the same verified flag and the same proofHash, whenever
\* the two calls were made.
C4_MockVerificationDeterministic ==
    \A a, b \in mockLog :
        (a.oracleName = b.oracleName /\ a.dataType = b.dataType /\ a.dataValue = b.dataValue)
            => (a.verified = b.verified /\ a.proofHash = b.proofHash)

\* C5: every call terminates, also when the attestation service never
\* answers: a call in flight eventually returns.
C5_VerificationTerminates == (pc # "idle") ~> (pc = "idle")

\* C10: the score of every response of the pipeline, successful or failed,
\* is an integer between 0 and 100.
C10_ScoreIsIntegerUpTo100 ==
    (response # None /\ response.k = "response") => IsIntegerIn(response.score, 0, 100)

(***************************************************************************)
(* Proof tiers.                                                            *)
(***************************************************************************)
\* The tier of a proof input: 0.4 without an attestation, 0.1 when it failed
\* verification, 1.0 when verified against a domain of the allow-list, 0.9
\* when verified against any other domain or none.
ProofTier(input) ==
    IF ~input.hasZkProof THEN Num(4000)
    ELSE IF ~input.proofVerified THEN Num(1000)
    ELSE IF input.proofDomain \in trustedDomains THEN Whole(1)
    ELSE Num(9000)

\* C11: every proof-score calculator, the scoring module's and the
\* pipeline's, returns the tier of its input: 0.4, 0.1, 0.9 or 1.0.
C11_ProofScoreTiers ==
    fn \in {"calculateProofScore", "calculateProofScore_Web"} => out = ProofTier(args)


(***************************************************************************)
(* Formula selection by category.                                          *)
(***************************************************************************)
\* /word/i.test(s): the patterns are plain words with the i flag.
test(word, s) == includes(toLowerCase(s), word)

\* The knowledge base of the mock AI provider, in its order.
DATA_TYPE_PATTERNS ==
    <<[patterns |-> {"price", "rate", "token", "exchange", "forex", "stock"},
       formulaId |-> "price_feed_v1", baseConfidence |-> "high"],
      [patterns |-> {"weather", "temperature", "humidity", "precipitation", "climate"},
       formulaId |-> "weather_v1", baseConfidence |-> "high"],
      [patterns |-> {"governance", "policy", "vote", "regulation", "law", "ruling"},
       formulaId |-> "policy_v1", baseConfidence |-> "high"],
      [patterns |-> {"prediction", "outcome", "result", "sport", "event", "match", "game"},
       formulaId |-> "prediction_v1", baseConfidence |-> "high"],
      [patterns |-> {"private", "sensitive", "kyc", "identity", "confidential", "personal"},
       formulaId |-> "private_v1", baseConfidence |-> "high"]>>

\* The loop of findMatchingFormula with the patterns tested as written, the
\* i flag dropped.
RECURSIVE findMatchingFormula_CaseSensitiveFrom(_, _)
findMatchingFormula_CaseSensitiveFrom(i, dataType) ==
    IF i > Len(DATA_TYPE_PATTERNS)
    THEN [formulaId |-> "generic_v1", baseConfidence |-> "medium"]
    ELSE IF \E p \in DATA_TYPE_PATTERNS[i].patterns : includes(dataType, p)
    THEN [formulaId |-> DATA_TYPE_PATTERNS[i].formulaId,
          baseConfidence |-> DATA_TYPE_PATTERNS[i].baseConfidence]
    ELSE findMatchingFormula_CaseSensitiveFrom(i + 1, dataType)

findMatchingFormula_CaseSensitive(dataType) ==
    findMatchingFormula_CaseSensitiveFrom(1, dataType)

\* The for loop of findMatchingFormula from entry i on.
RECURSIVE findMatchingFormulaFrom(_, _)
findMatchingFormulaFrom(i, dataType) ==
    IF i > Len(DATA_TYPE_PATTERNS)
    THEN [formulaId |-> "generic_v1", baseConfidence |-> "medium"]
    ELSE IF \E p \in DATA_TYPE_PATTERNS[i].patterns : test(p, dataType)
    THEN [formulaId |-> DATA_TYPE_PATTERNS[i].formulaId,
          baseConfidence |-> DATA_TYPE_PATTERNS[i].baseConfidence]
    ELSE findMatchingFormulaFrom(i + 1, dataType)

findMatchingFormula(dataType) == findMatchingFormulaFrom(1, dataType)

\* Object.values(FORMULAS): the ids in insertion order.
FormulaOrder ==
    <<"price_feed_v1", "weather_v1", "policy_v1", "prediction_v1", "private_v1",
      "generic_v1">>

\* FORMULAS[id].applicableDataTypes.
applicableDataTypes(id) ==
    CASE id = "price_feed_v1" -> {"price_feed", "exchange_rate", "token_price"}
      [] id = "weather_v1" -> {"weather", "temperature", "precipitation"}
      [] id = "policy_v1" -> {"policy", "governance", "voting", "regulation"}
      [] id = "prediction_v1" -> {"prediction", "outcome", "event_result", "sports"}
      [] id = "private_v1" -> {"private", "sensitive", "confidential", "kyc"}
      [] id = "generic_v1" -> {"*"}

\* The for loop of selectFormula from entry i on; it yields the formula's id.
RECURSIVE selectFormulaFrom(_, _)
selectFormulaFrom(i, normalizedType) ==
    IF i > Len(FormulaOrder) THEN FORMULAS["generic_v1"].id
    ELSE IF FormulaOrder[i] = "generic_v1" THEN selectFormulaFrom(i + 1, normalizedType)
    ELSE IF normalizedType \in applicableDataTypes(FormulaOrder[i])
    THEN FORMULAS[FormulaOrder[i]].id
    ELSE selectFormulaFrom(i + 1, normalizedType)

selectFormula(dataType) == selectFormulaFrom(1, toLowerCase(dataType))

\* The categories drawn: the catalog's data types, the same in other cases,
\* words only the patterns know, categories matching several profiles, and
\* categories matching none.
Categories ==
    {"price_feed", "exchange_rate", "token_price", "weather", "temperature",
     "precipitation", "policy", "governance", "voting", "regulation", "prediction",
     "outcome", "event_result", "sports", "private", "sensitive", "confidential", "kyc",
     "Price_Feed", "TEMPERATURE", "Governance", "SPORTS", "KYC", "Weather",
     "humidity", "climate", "vote", "law", "ruling", "match", "game", "identity",
     "personal", "forex", "stock",
     "weather price", "corporate governance", "sports vote", "private game",
     "election outcome law", "Personal Stock", "token weather",
     "random_type", "custom", "*", ""}

SelectInit ==
    /\ NoCall
    /\ args \in Categories
    /\ ProcessIdle

FindMatchingFormula ==
    Apply("findMatchingFormula", findMatchingFormula(args).formulaId)

SelectFormulaPackage == Apply("selectFormula", selectFormula(args))

SelectFormulaWeb == Apply("selectFormulaRuleBased", selectFormulaRuleBased(args))

SelectNext == FindMatchingFormula \/ SelectFormulaPackage \/ SelectFormulaWeb

SpecSelect == SelectInit /\ [][SelectNext]_vars

\* The specific profiles in the fixed order: financial, environmental,
\* governance, event outcome, sensitive.
ProfileOrder ==
    <<"price_feed_v1", "weather_v1", "policy_v1", "prediction_v1", "private_v1">>

\* The words by which a selector recognises a profile, and whether it looks
\* for them inside the category or compares the whole category.
Keywords(selector, profile) ==
    IF selector = "findMatchingFormula"
    THEN CASE profile = "price_feed_v1" ->
                {"price", "rate", "token", "exchange", "forex", "stock"}
           [] profile = "weather_v1" ->
                {"weather", "temperature", "humidity", "precipitation", "climate"}
           [] profile = "policy_v1" ->
                {"governance", "policy", "vote", "regulation", "law", "ruling"}
           [] profile = "prediction_v1" ->
                {"prediction", "outcome", "result", "sport", "event", "match", "game"}
           [] profile = "private_v1" ->
                {"private", "sensitive", "kyc", "identity", "confidential", "personal"}
    ELSE IF selector = "selectFormula"
    THEN CASE profile = "price_feed_v1" -> {"price_feed", "exchange_rate", "token_price"}
           [] profile = "weather_v1" -> {"weather", "temperature", "precipitation"}
           [] profile = "policy_v1" -> {"policy", "governance", "voting", "regulation"}
           [] profile = "prediction_v1" ->
                {"prediction", "outcome", "event_result", "sports"}
           [] profile = "private_v1" -> {"private", "sensitive", "confidential", "kyc"}
    ELSE CASE profile = "price_feed_v1" -> {"price", "token", "exchange"}
           [] profile = "weather_v1" -> {"weather", "temperature"}
           [] OTHER -> {}

\* The positions in ProfileOrder of the profiles a category matches, whatever
\* the case of its letters.
Matching(selector, category) ==
    {i \in 1..Len(ProfileOrder) :
        \E word \in Keywords(selector, ProfileOrder[i]) :
            IF selector = "selectFormula" THEN toLowerCase(category) = word
            ELSE \E j \in 1..Len(category) : \E k \in j..Len(category) :
                    toLowerCase(SubSeq(category, j, k)) = word}

\* C12: every selector returns the first profile, in the order financial,
\* environmental, governance, event outcome, sensitive, that the category
\* matches case-insensitively, and generic_v1 only when it matches none; the
\* selectors over the whole catalog send 'temperature' to weather_v1,
\* 'governance' to policy_v1, 'sports' to prediction_v1 and an unmatched
\* category to generic_v1.
C12_FirstMatchWins ==
    fn \in {"findMatchingFormula", "selectFormula", "selectFormulaRuleBased"} =>
        LET hits == Matching(fn, args)
        IN  /\ hits = {} <=> out = "generic_v1"
            /\ hits # {} =>
                 \E i \in hits : out = ProfileOrder[i] /\ \A j \in hits : i <= j
            /\ fn # "selectFormulaRuleBased" =>
                 /\ args = "temperature" => out = "weather_v1"
                 /\ args = "governance" => out = "policy_v1"
                 /\ args = "sports" => out = "prediction_v1"
                 /\ args = "random_type" => out = "generic_v1"

\* A category in capitals that matches both the sensitive and the financial
\* profile has been resolved by the pattern selector.
C12_Witness ==
    fn = "findMatchingFormula" /\ args = "Personal Stock" /\ out = "price_feed_v1"

(***************************************************************************)
(* Formula resolution in the pipeline.                                     *)
(***************************************************************************)
\* C13: in the pipeline, once the verification has returned, whatever the
\* formula selector yields (a catalog id, an id the catalog lacks, no id, or a
\* failure inside the selector), the response is a success result computed
\* with a profile of the catalog: no formula-resolution problem reaches the
\* caller as an error.
C13_FormulaAlwaysResolves ==
    (/\ response # None
     /\ response.k = "response"
     /\ request.entry = "evaluateOracleData"
     /\ zkResult # None)
        => response.success /\ response.formulaId \in FormulaIds_Web

(***************************************************************************)
(* Context-dependent weight adjustments (MockAIProvider).                  *)
(***************************************************************************)
\* ORACLE_TRUST_LEVELS[key]; an inherited member is a function, not a level,
\* and is truthy.
ORACLE_TRUST_LEVELS(key) ==
    CASE key \in {"chainlink", "pyth"} -> "high"
      [] key \in {"api3", "band", "dia"} -> "medium"
      [] key \in InheritedKeys -> "inherited"
      [] OTHER -> "undefined"

\* calculateWeightAdjustments: the deltas the context asks for, Undefined for
\* the record when it asks for none.
calculateWeightAdjustments(context) ==
    LET proof == IF context.hasZkProof /\ context.proofVerified THEN Num(500)
                 ELSE Undefined
        source == IF ORACLE_TRUST_LEVELS(toLowerCase(context.oracleName)) = "undefined"
                  THEN Num(500) ELSE Undefined
        accuracy == IF ~context.referenceDataAvailable THEN FNeg(Num(500)) ELSE Undefined
        time == IF context.timeSensitiveHint THEN Num(500) ELSE Undefined
    IN  IF proof = Undefined /\ source = Undefined /\ accuracy = Undefined
           /\ time = Undefined
        THEN Undefined
        ELSE [source |-> source, time |-> time, accuracy |-> accuracy, proof |-> proof]

\* The context of the evaluation that has just answered.
ContextOf(req, zk) ==
    [oracleName |-> req.oracleName, hasZkProof |-> zk.success,
     proofVerified |-> zk.verified,
     referenceDataAvailable |->
         req.referenceValues.k = "array" /\ Len(req.referenceValues.items) > 0,
     timeSensitiveHint |-> FALSE]

\* C14: in the pipeline the weighted scores of a successful response are the
\* raw scores times the weights of the resolved profile after the weight
\* adjustment (the context's deltas applied, clamped, renormalized): the
\* adjustment comes after the resolution and before the aggregation.
C14_AggregatesAdjustedWeights ==
    (/\ response # None
     /\ response.k = "response"
     /\ response.success
     /\ request.entry = "evaluateOracleData")
        => LET profile == FORMULAS_Web[response.formulaId]
               adjustments == calculateWeightAdjustments(ContextOf(request.body, zkResult))
               weights == applyWeightAdjustments(profile.weights, adjustments)
           IN  response.breakdown.weighted = Weighted(response.breakdown.raw, weights)

(***************************************************************************)
(* The pending-verification cache and GET /api/oracle-data/[requestId].    *)
(* Evaluations run concurrently on one event loop: each touches the cache  *)
(* once, in the synchronous opening of evaluateOracleData, and a GET reads *)
(* it in one synchronous step.                                             *)
(*   fn, args, out        the last GET: its request id and its response    *)
(***************************************************************************)
\* The clock of the cache advances in steps of CacheTickMs.
MaxCacheTicks == 3

CacheTickMs == 150 * 1000

\* maxAge of cleanupOldEntries.
maxAge == 5 * 60 * 1000

\* null.
Null == [k |-> "null", v |-> 0]

\* NextResponse.json(body, {status}).
Json(status, body) == [k |-> "json", status |-> status, body |-> body]

\* The body GET builds from the data found.
OracleDataBody(requestId, data, nowMs) ==
    [requestId |-> requestId,
     oracle |-> [name |-> data.oracleName, type |-> data.dataType, verified |-> TRUE],
     data |-> data.dataValue,
     metadata |-> [source |-> IF data.sourceUrl = "" THEN Null ELSE Str(data.sourceUrl),
                   referenceValues |-> IF data.referenceValues = Undefined THEN Null
                                       ELSE data.referenceValues,
                   timestamp |-> nowMs]]

\* Two request bodies that reach storePendingVerification: one with a source
\* URL and reference values, one without.
StoredRequests ==
    {Req("Chainlink", "price_feed", DV_Price, CoinGecko, Array(<<1000000>>)),
     Req("UnknownOracle", "weather", DV_Weather, "", Undefined)}

\* The request ids a caller may ask for.
RequestIds == {<<t * CacheTickMs, nonce>> : t \in 0..MaxCacheTicks, nonce \in Nonces}

CacheInit ==
    /\ NoCall
    /\ args = None
    /\ ProcessIdle

\* Time passes.
CacheTick ==
    /\ now < MaxCacheTicks * CacheTickMs
    /\ now' = now + CacheTickMs
    /\ UNCHANGED <<callVars, env, primusSdk, primusInitialized, anthropicClient,
                   pendingVerifications, calls, sdkInits, attestations, mockLog,
                   pc, request, local, zkResult, response>>

\* An evaluation starts: the opening of evaluateOracleData stores its payload
\* under its request id.
StorePending(req, nonce) ==
    /\ calls < MaxEvals + 1
    /\ calls' = calls + 1
    /\ pendingVerifications' =
           storePendingVerification(pendingVerifications, <<now, nonce>>, req, now)
    /\ UNCHANGED <<callVars, env, now, primusSdk, primusInitialized, anthropicClient,
                   sdkInits, attestations, mockLog, pc, request, local, zkResult,
                   response>>

\* GET: the entry of the cache under the id, whatever its age; without one,
\* the row the database returns (row), None when the query finds nothing or
\* fails; 404 when there is neither.
GET(requestId, row) ==
    /\ fn' = "GET"
    /\ args' = requestId
    /\ LET cached == {e \in pendingVerifications : e.requestId = requestId}
       IN  out' = IF cached # {}
                  THEN Json(200, OracleDataBody(requestId,
                                                (CHOOSE e \in cached : TRUE).data, now))
                  ELSE IF row # None
                  THEN Json(200, OracleDataBody(requestId, row, now))
                  ELSE Json(404, [error |-> "Not found"])
    /\ UNCHANGED <<processVars, database, chain, heap>>

CacheNext ==
    \/ CacheTick
    \/ \E req \in StoredRequests, nonce \in Nonces : StorePending(req, nonce)
    \/ \E requestId \in RequestIds, row \in {None} \cup StoredRequests : GET(requestId, row)

\* Nothing in the code runs on a timer: only the passage of time is certain.
SpecCache == CacheInit /\ [][CacheNext]_vars /\ WF_vars(CacheTick)

\* An entry older than the TTL is in the cache.
ExpiredEntryCached == \E e \in pendingVerifications : now - e.createdAt > maxAge

\* C15: in every execution, an entry of the pending-verification cache that
\* is older than the 5-minute TTL is eventually removed, read or not: no
\* expired entry stays in the cache for ever.
C15_ExpiredEntriesEvicted == ExpiredEntryCached ~> ~ExpiredEntryCached

\* A step of GET: the cache, the clock and the evaluations are as before.
StepOfGET == fn' = "GET" /\ UNCHANGED <<pendingVerifications, now, calls>>

\* C16: under every interleaving of evaluations and GETs, a GET of a cached
\* id answers 200 with exactly the payload stored under that id; and a step
\* leaves every entry as it is unless the entry has reached the TTL (it may be
\* swept) or the step stores under the entry's own id: stores and sweeps of
\* other evaluations neither alter an entry nor drop it while it is younger
\* than the TTL.
C16_CacheIsolation ==
    [][/\ StepOfGET =>
             \A e \in pendingVerifications :
                 e.requestId = args' =>
                     /\ out'.status = 200
                     /\ out'.body.requestId = e.requestId
                     /\ out'.body.oracle.name = e.data.oracleName
                     /\ out'.body.oracle.type = e.data.dataType
                     /\ out'.body.data = e.data.dataValue
                     /\ e.data.sourceUrl # "" =>
                            out'.body.metadata.source = Str(e.data.sourceUrl)
                     /\ e.data.referenceValues # Undefined =>
                            out'.body.metadata.referenceValues = e.data.referenceValues
       /\ \A e \in pendingVerifications :
              \/ e \in pendingVerifications'
              \/ now - e.createdAt >= maxAge
              \/ \E e2 \in pendingVerifications' :
                     e2.requestId = e.requestId /\ e2.createdAt = now]_vars

\* A GET has served an entry from the cache after an evaluation stored under
\* another id while the entry was younger than the TTL, and after the sweep
\* of that store removed an older entry.
C16_Witness ==
    /\ fn = "GET"
    /\ out.status = 200
    /\ now = 3 * CacheTickMs
    /\ \E e \in pendingVerifications :
           /\ e.requestId = args
           /\ e.createdAt = 2 * CacheTickMs
           /\ out.body.data = e.data.dataValue
    /\ \E e \in pendingVerifications : e.createdAt = 3 * CacheTickMs
    /\ calls = 3

(***************************************************************************)
(* verifyMultipleDataSources: one verifyOracleDataSource per item, joined  *)
(* by Promise.all.                                                         *)
(*   request.body         the data list                                    *)
(*   local.items          the promise of each item: where it waits and,    *)
(*                        once fulfilled, its result                       *)
(*   response             what the promise of the batch settled to         *)
(***************************************************************************)
MaxBatch == 2

\* Items: with a user address, without one, and one whose oracleName is not
\* a string and that has no user address.
BatchItems ==
    {[data |-> Req("Chainlink", "price_feed", DV_Price, CoinGecko, Undefined),
      userAddress |-> Str("0x52908400098527886E0F7030069857D2E4169EE7")],
     [data |-> Req("Chainlink", "price_feed", DV_Round, CoinGecko, Undefined),
      userAddress |-> Undefined],
     [data |-> Req(NotAString, "price_feed", DV_Price, CoinGecko, Undefined),
      userAddress |-> Undefined]}

DataLists == UNION {[1..n -> BatchItems] : n \in 1..MaxBatch}

\* The result of verifyOracleDataSource: the client's result and the item's
\* oracleName, dataType and dataValue.
ResultFor(result, item) ==
    [result |-> result, oracleName |-> item.data.oracleName,
     dataType |-> item.data.dataType, originalData |-> item.data.dataValue]

Fulfilled(result, item) == [pc |-> "fulfilled", value |-> ResultFor(result, item)]

Rejected(message) == [pc |-> "rejected", value |-> [error |-> message]]

BatchInit ==
    /\ NoCall
    /\ args = None
    /\ env \in Environments
    /\ now = 0
    /\ primusSdk = "null"
    /\ primusInitialized = FALSE
    /\ anthropicClient = "null"
    /\ pendingVerifications = {}
    /\ calls = 0
    /\ sdkInits = [web |-> 0, pkg |-> 0]
    /\ attestations = [web |-> 0, pkg |-> 0]
    /\ mockLog = {}
    /\ pc = "idle"
    /\ request = None
    /\ local = None
    /\ zkResult = None
    /\ response = None

\* verifyMultipleDataSources(dataList, options): map calls
\* verifyOracleDataSource on every item, each running to its await of
\* client.init(), and Promise.all waits.
VerifyMultipleDataSources(dataList, templateId) ==
    /\ pc = "idle"
    /\ calls = 0
    /\ calls' = 1
    /\ request' = [entry |-> "verifyMultipleDataSources", body |-> dataList,
                   templateId |-> templateId]
    /\ local' = [entry |-> "batch", client |-> createZkTlsClient(env),
                 items |-> [i \in 1..Len(dataList) |-> [pc |-> "init", value |-> None]]]
    /\ pc' = "batch"
    /\ UNCHANGED <<callVars, env, now, primusSdk, primusInitialized, anthropicClient,
                   pendingVerifications, sdkInits, attestations, mockLog, zkResult,
                   response>>

\* The promise of item i moves to state s.
ItemBecomes(i, s) == local' = [local EXCEPT !.items[i] = s]

\* client.init() settles for item i (outcome: what the import and sdk.init
\* did for a Primus client).  When it is true the user address is the item's
\* or the placeholder made from oracleName, which throws on a seed that is no
\* string; then fullVerification starts.
ItemInit(i, outcome) ==
    /\ local # None
    /\ local.entry = "batch"
    /\ i \in 1..Len(request.body)
    /\ local.items[i].pc = "init"
    /\ LET item == request.body[i]
           mock == local.client.class = "MockZkTlsClient"
       IN  IF ~mock /\ outcome # "truthy"
           THEN ItemBecomes(i, Fulfilled(InitFailure(now), item))
           ELSE IF item.userAddress = Undefined /\ item.data.oracleName = NotAString
           THEN ItemBecomes(i, Rejected("The \"data\" argument must be of type string"))
           ELSE IF mock
           THEN ItemBecomes(i, [pc |-> "mock_run", value |-> None])
           ELSE IF ~(request.templateId \/ local.client.templateId)
           THEN ItemBecomes(i, Fulfilled(ClientFailure(now, "Template ID is required"),
                                         item))
           ELSE ItemBecomes(i, [pc |-> "sign", value |-> None])
    /\ UNCHANGED <<callVars, env, now, primusSdk, primusInitialized, anthropicClient,
                   pendingVerifications, calls, sdkInits, attestations, mockLog, pc,
                   request, zkResult, response>>

\* MockZkTlsClient.fullVerification returns for item i.
ItemMockRun(i) ==
    /\ local # None
    /\ local.entry = "batch"
    /\ i \in 1..Len(request.body)
    /\ local.items[i].pc = "mock_run"
    /\ ItemBecomes(i, Fulfilled(MockClientResult(UserAddressOf(request.body[i]), now, now),
                                request.body[i]))
    /\ UNCHANGED <<callVars, env, now, primusSdk, primusInitialized, anthropicClient,
                   pendingVerifications, calls, sdkInits, attestations, mockLog, pc,
                   request, zkResult, response>>

\* sdk.sign settles for item i; on success sdk.startAttestation is called.
ItemSign(i, outcome) ==
    /\ local # None
    /\ local.entry = "batch"
    /\ i \in 1..Len(request.body)
    /\ local.items[i].pc = "sign"
    /\ IF outcome = "ok"
       THEN /\ ItemBecomes(i, [pc |-> "attest", value |-> None])
            /\ attestations' = [attestations EXCEPT !.pkg = @ + 1]
       ELSE /\ ItemBecomes(i, Fulfilled(ClientFailure(now, outcome), request.body[i]))
            /\ UNCHANGED attestations
    /\ UNCHANGED <<callVars, env, now, primusSdk, primusInitialized, anthropicClient,
                   pendingVerifications, calls, sdkInits, mockLog, pc, request,
                   zkResult, response>>

\* sdk.startAttestation settles for item i and the attestation is checked.
ItemAttested(i, outcome) ==
    /\ local # None
    /\ local.entry = "batch"
    /\ i \in 1..Len(request.body)
    /\ local.items[i].pc = "attest"
    /\ IF outcome \in {"valid", "invalid"}
       THEN ItemBecomes(i, Fulfilled([success |-> TRUE, verified |-> (outcome = "valid"),
                                      proofHash |-> sha256(<<"attestation", i>>),
                                      timestamp |-> now, mode |-> "absent",
                                      error |-> "", by |-> "PrimusZkTlsClient"],
                                     request.body[i]))
       ELSE ItemBecomes(i, Fulfilled(ClientFailure(now, outcome), request.body[i]))
    /\ UNCHANGED <<callVars, env, now, primusSdk, primusInitialized, anthropicClient,
                   pendingVerifications, calls, sdkInits, attestations, mockLog, pc,
                   request, zkResult, response>>

\* Promise.all settles: rejected as soon as one item is rejected, fulfilled
\* with the results in the order of the items once all are fulfilled.
PromiseAll ==
    /\ pc = "batch"
    /\ LET states == local.items
           indices == 1..Len(request.body)
       IN  \/ /\ \E i \in indices : states[i].pc = "rejected"
              /\ response' = [k |-> "rejected", v |-> 0]
           \/ /\ \A i \in indices : states[i].pc = "fulfilled"
              /\ response' = [k |-> "results",
                              items |-> [i \in indices |-> states[i].value]]
    /\ pc' = "idle"
    /\ UNCHANGED <<callVars, env, now, primusSdk, primusInitialized, anthropicClient,
                   pendingVerifications, calls, sdkInits, attestations, mockLog,
                   request, local, zkResult>>

\* The steps the batch takes by itself or on a reply of the SDK.
BatchStep ==
    \/ \E i \in 1..MaxBatch, outcome \in {"truthy", "falsy", "throws"} : ItemInit(i, outcome)
    \/ \E i \in 1..MaxBatch : ItemMockRun(i)
    \/ \E i \in 1..MaxBatch, outcome \in {"ok"} \cup SdkErrors : ItemSign(i, outcome)
    \/ PromiseAll

BatchNext ==
    \/ \E dataList \in DataLists, templateId \in BOOLEAN :
          VerifyMultipleDataSources(dataList, templateId)
    \/ BatchStep
    \/ \E i \in 1..MaxBatch, outcome \in {"valid", "invalid"} \cup SdkErrors :
          ItemAttested(i, outcome)

\* Every step the process can take is taken; the attestation service may
\* never answer.
SpecBatch == BatchInit /\ [][BatchNext]_vars /\ WF_vars(BatchStep)

\* C17: the batch call never rejects and returns an array with one result
\* per input, the result of input i at index i, whatever happens to the other
\* items: a failing item shows as success = false at its own index.
C17_BatchIsolatesFailures ==
    /\ [](response # None =>
            /\ response.k = "results"
            /\ Len(response.items) = Len(request.body)
            /\ \A i \in 1..Len(request.body) :
                   /\ response.items[i].oracleName = request.body[i].data.oracleName
                   /\ response.items[i].originalData = request.body[i].data.dataValue)
    /\ (pc = "batch") ~> (response # None)

(***************************************************************************)
(* POST /api/evaluate: the route handler around evaluateOracleData.        *)
(*   fn, args, out        the handler ("POST"), its locals (the route, the *)
(*                        body, where it waits, the evaluation result, how *)
(*                        the insert went) and the HTTP response           *)
(*   database             the rows inserted into the evaluations table     *)
(*   chain                the registry contract                            *)
(***************************************************************************)
\* A body that is no JSON: request.json() throws.
InvalidJson == [k |-> "invalid", v |-> 0]

\* Parsed bodies ('' is a missing or empty string, Undefined a missing
\* dataValue): two complete ones, one whose oracleName is not a string, one
\* lacking each required field, and the JSON value null.
Bodies ==
    {Req("Chainlink", "price_feed", DV_Price, CoinGecko, Array(<<1000000>>)),
     Req("UnknownOracle", "weather", DV_Weather, "", Undefined),
     Req(NotAString, "price_feed", DV_Price, CoinGecko, Undefined),
     Req("", "price_feed", DV_Price, CoinGecko, Undefined),
     Req("Chainlink", "", DV_Price, CoinGecko, Undefined),
     Req("Chainlink", "price_feed", Undefined, CoinGecko, Undefined),
     Null}

\* The two versions of the handler: the plain one and the one that persists
\* the result and submits it on-chain.
Routes == {"plain", "persisting"}

\* !body.oracleName || !body.dataType || !body.dataValue.
MissingRequiredFields(body) ==
    body.oracleName = "" \/ body.dataType = "" \/ body.dataValue = Undefined

\* The handler's locals.
Locals(route, body, at, result, persist) ==
    [route |-> route, body |-> body, at |-> at, result |-> result, persist |-> persist]

\* NextResponse.json({...result, onChain}).
ResultBody(result, onChain) == [result |-> result, onChain |-> onChain]

\* The outcomes of submitResultOnChain.
Skipped == [success |-> TRUE, mode |-> "skipped", error |-> ""]

RealSuccess == [success |-> TRUE, mode |-> "real", error |-> ""]

RealFailure_Chain(message) == [success |-> FALSE, mode |-> "real", error |-> message]

\* The handler answers.
Answer(status, body) ==
    /\ out' = Json(status, body)
    /\ args' = [args EXCEPT !.at = "responded"]

\* The insert without its try: what it throws reaches the outer catch.
ErrorAfterInsert_NoCatch(outcome) ==
    IF outcome = "throws" THEN "insert failed" ELSE ""

\* The error that leaves lines 162-183: the catch logs what the insert
\* throws, and the value the insert resolves to is never looked at.
ErrorAfterInsert(outcome) == ""

EndpointInit ==
    /\ fn = ""
    /\ args = None
    /\ out = None
    /\ database = {}
    /\ chain \in {Chain(FALSE), Chain(TRUE)}
    /\ heap = ModuleObjects
    /\ env = Env(FALSE, FALSE, FALSE, "unset", FALSE)
    /\ now = 0
    /\ primusSdk = "null"
    /\ primusInitialized = FALSE
    /\ anthropicClient = "null"
    /\ pendingVerifications = {}
    /\ calls = 0
    /\ sdkInits = [web |-> 0, pkg |-> 0]
    /\ attestations = [web |-> 0, pkg |-> 0]
    /\ mockLog = {}
    /\ pc = "idle"
    /\ request = None
    /\ local = None
    /\ zkResult = None
    /\ response = None

\* POST up to its second await: request.json() resolves or throws, the body
\* is validated and evaluateOracleData is called.
POST(route, body, nonce) ==
    /\ fn = "" \/ out # None
    /\ pc = "idle"
    /\ fn' = "POST"
    /\ IF body = InvalidJson \/ body = Null
       THEN /\ out' = Json(500, [error |-> "Internal server error"])
            /\ args' = Locals(route, body, "responded", None, "none")
            /\ UNCHANGED processVars
       ELSE IF MissingRequiredFields(body)
       THEN /\ out' = Json(400, [error |-> "Missing required fields: oracleName, dataType, dataValue"])
            /\ args' = Locals(route, body, "responded", None, "none")
            /\ UNCHANGED processVars
       ELSE /\ EvaluateOpening(body, nonce)
            /\ out' = None
            /\ args' = Locals(route, body, "evaluating", None, "none")
    /\ UNCHANGED <<database, chain, heap>>

\* evaluateOracleData has returned: the plain handler answers, the other one
\* calls insert.
EvaluationReturns ==
    /\ fn = "POST"
    /\ args.at = "evaluating"
    /\ pc = "idle"
    /\ response # None
    /\ IF args.route = "plain"
       THEN /\ out' = Json(200, ResultBody(response, Undefined))
            /\ args' = [args EXCEPT !.at = "responded", !.result = response]
       ELSE /\ args' = [args EXCEPT !.at = "persisting", !.result = response]
            /\ UNCHANGED out
    /\ UNCHANGED <<fn, processVars, database, chain, heap>>

\* The insert settles (it resolves, resolves to an error, or throws), then
\* submitResultOnChain runs up to its await of contract.submitResult: without
\* the configuration it returns 'skipped'; setup says whether building the
\* provider, the wallet and the contract throws.
InsertSettles(outcome, setup) ==
    /\ fn = "POST"
    /\ args.at = "persisting"
    /\ database' = IF outcome = "ok"
                   THEN database \cup {[request_id |-> args.result.requestId,
                                        oracle_name |-> args.body.oracleName,
                                        score |-> args.result.score]}
                   ELSE database
    /\ IF ErrorAfterInsert(outcome) # ""
       THEN /\ out' = Json(500, [error |-> "Internal server error"])
            /\ args' = [args EXCEPT !.at = "responded", !.persist = outcome]
       ELSE IF ~chain.configured
       THEN /\ out' = Json(200, ResultBody(args.result, Skipped))
            /\ args' = [args EXCEPT !.at = "responded", !.persist = outcome]
       ELSE IF setup = "throws"
       THEN /\ out' = Json(200, ResultBody(args.result, RealFailure_Chain("invalid private key")))
            /\ args' = [args EXCEPT !.at = "responded", !.persist = outcome]
       ELSE /\ args' = [args EXCEPT !.at = "submitting", !.persist = outcome]
            /\ UNCHANGED out
    /\ UNCHANGED <<fn, processVars, chain, heap>>

\* contract.submitResult settles: the transaction is sent, and tx.wait() is
\* awaited, or the call throws.
SubmitSettles(outcome) ==
    /\ fn = "POST"
    /\ args.at = "submitting"
    /\ IF outcome = "sent"
       THEN /\ chain' = [chain EXCEPT !.submissions =
                            @ \cup {[requestId |-> args.result.requestId,
                                     score |-> args.result.score]}]
            /\ args' = [args EXCEPT !.at = "mining"]
            /\ UNCHANGED out
       ELSE /\ Answer(200, ResultBody(args.result, RealFailure_Chain(outcome)))
            /\ UNCHANGED chain
    /\ UNCHANGED <<fn, processVars, database, heap>>

\* tx.wait() settles.
ReceiptArrives(outcome) ==
    /\ fn = "POST"
    /\ args.at = "mining"
    /\ Answer(200, ResultBody(args.result,
                              IF outcome = "mined" THEN RealSuccess
                              ELSE RealFailure_Chain(outcome)))
    /\ UNCHANGED <<fn, processVars, database, chain, heap>>

\* The steps of the pipeline in a deployment with no credentials: simulated
\* verification and rule-based selection.
PipelineStep ==
    \/ VerifyOracleDataSource_Web
    \/ \E outcome \in {"ok"} \cup SdkErrors : Dispatch_Web(outcome)
    \/ \E outcome \in {"constructed", "throws"} : SelectFormula(outcome)

\* The continuations of the handler up to the on-chain submission; the
\* database is taken to answer.
HandlerStep ==
    \/ EvaluationReturns
    \/ \E outcome \in {"ok", "error", "throws"}, setup \in {"ok", "throws"} :
          InsertSettles(outcome, setup)

\* The replies of the RPC node.
ChainReplies ==
    \/ \E outcome \in {"sent", "network error"} : SubmitSettles(outcome)
    \/ \E outcome \in {"mined", "transaction reverted"} : ReceiptArrives(outcome)

EndpointNext ==
    \/ \E route \in Routes, body \in Bodies \cup {InvalidJson}, nonce \in Nonces :
          POST(route, body, nonce)
    \/ PipelineStep
    \/ HandlerStep
    \/ ChainReplies

\* The handler's continuations are run; nothing bounds the time
\* contract.submitResult and tx.wait() take.
SpecEndpoint == EndpointInit /\ [][EndpointNext]_vars /\ WF_vars(HandlerStep)

\* The body lacks oracleName, dataType or dataValue.
LacksRequiredField(body) ==
    \/ body = Null
    \/ /\ body # InvalidJson
       /\ (body.oracleName = "" \/ body.dataType = "" \/ body.dataValue = Undefined)

\* C18: a POST whose body lacks oracleName, dataType or dataValue is answered
\* with status 400, and evaluateOracleData is not invoked for it: no cache
\* entry, no row and no on-chain submission comes from that request.
C18_MissingFieldsRejected ==
    (fn = "POST" /\ LacksRequiredField(args.body)) =>
        /\ out # None
        /\ out.status = 400
        /\ request # None => request.body # args.body
        /\ \A e \in pendingVerifications : e.data # args.body
        /\ args.result = None

\* C19: when the insert of an evaluation throws or resolves to an error, the
\* handler's answer is still the evaluation result, with status 200 and the
\* score, trust level, breakdown and verification outcome evaluateOracleData
\* returned: never an error response.
C19_PersistenceFailureIgnored ==
    (/\ fn = "POST"
     /\ args.persist \in {"error", "throws"}
     /\ out # None)
        => /\ out.status = 200
           /\ out.body.result.score = response.score
           /\ out.body.result.trustLevel = response.trustLevel
           /\ out.body.result.breakdown = response.breakdown
           /\ out.body.result.zkVerified = response.zkVerified
           /\ out.body.result.proofHash = response.proofHash

\* The insert threw and the handler answered with a successful evaluation.
C19_Witness ==
    /\ fn = "POST"
    /\ args.persist = "throws"
    /\ out # None
    /\ out.status = 200
    /\ out.body.result.success
    /\ database = {}

\* C20: the on-chain submission neither fails nor blocks the response: the
\* answer of the persisting handler carries the evaluation result with its
\* score and trust level unchanged, and once the submission has started
\* (sent or not, mined or not, or never completing) the handler eventually
\* answers.
C20_OnChainNeverBlocks ==
    /\ []((fn = "POST" /\ args.at = "responded" /\ args.result # None) =>
             /\ out.status = 200
             /\ out.body.result.score = response.score
             /\ out.body.result.trustLevel = response.trustLevel)
    /\ (fn = "POST" /\ args.at \in {"submitting", "mining"}) ~> (out # None)

(***************************************************************************)
(* generateCustomFormula on every context and a set of rationales.         *)
(***************************************************************************)
Rationales ==
    {"real-time, time-critical, financial-grade accuracy",
     "Real-time trading data that is extremely time-critical, needs financial-grade accuracy",
     "TIME-CRITICAL price from an untrusted venue",
     "weather sensor used for price hedging",
     "governance vote on the weather policy",
     "KYC result",
     "private vote outcome",
     "sensitive private data, strict",
     "lenient flexible event",
     "unknown source, real-time",
     "Environmental monitoring, high standard",
     "real-time price feed for private KYC data",
     "outcome of a sensitive policy vote, time-critical",
     "time-critical",
     "general purpose",
     ""}

GeneratorContexts ==
    [oracleName : {"HFTOracle"}, dataType : {"high_frequency_trading"},
     hasZkProof : BOOLEAN, proofVerified : BOOLEAN, referenceDataAvailable : BOOLEAN]

GenerateInit ==
    /\ NoCall
    /\ args \in [context : GeneratorContexts, reason : Rationales,
                 halves : [WeightNames -> BOOLEAN], noise : BOOLEAN]
    /\ ProcessIdle

GenerateCustomFormula ==
    Apply("generateCustomFormula",
          generateCustomFormula(args.context, args.reason, args.halves, args.noise, now))

AnalyzeContext ==
    Apply("analyzeContext", analyzeContext(args.context, args.reason))

GenerateNext == GenerateCustomFormula \/ AnalyzeContext

SpecGenerate == GenerateInit /\ [][GenerateNext]_vars

\* C21: for every context and every rationale the four weights of the
\* generated formula are whole hundredths and add up to exactly 1.00, and
\* the time, accuracy and proof weights are the rounded shares themselves:
\* whatever the rounding leaves over is in the source weight only.
C21_GeneratedWeightsSumToOne ==
    fn = "generateCustomFormula" =>
        /\ \A k \in WeightNames : IsNum(out.weights[k]) /\ out.weights[k].v % 100 = 0
        /\ SumOf(out.weights) = Whole(1)
        /\ \A k \in WeightNames \ {"source"} :
               out.weights[k] =
                   generateCustomFormula_NoResidual(args.context, args.reason,
                                                    args.halves, args.noise, now).weights[k]

\* A generated formula whose rounded shares did not add up to 1.00.
C21_Witness ==
    /\ fn = "generateCustomFormula"
    /\ SumOf(generateCustomFormula_NoResidual(args.context, args.reason, args.halves,
                                              args.noise, now).weights) # Whole(1)
    /\ SumOf(out.weights) = Whole(1)

\* The rationale names a financial keyword and a time keyword.
FinancialAndTimeCritical(reason) ==
    LET r == toLowerCase(reason)
    IN  /\ includes(r, "financial") \/ includes(r, "price") \/ includes(r, "trading")
        /\ includes(r, "real-time") \/ includes(r, "time-critical")

\* C22: for every context, a rationale that contains 'real-time' or
\* 'time-critical' together with a financial keyword yields a generated
\* formula whose time weight is strictly above 0.25 and whose four weights
\* add up to 1.0.
C22_TimeCriticalFinancialRaisesTime ==
    (fn = "generateCustomFormula" /\ FinancialAndTimeCritical(args.reason)) =>
        /\ FGt(out.weights.time, Num(2500))
        /\ SumOf(out.weights) = Whole(1)

\* Such a rationale that also names a later archetype, for a failed proof
\* and no reference data.
C22_Witness ==
    /\ fn = "generateCustomFormula"
    /\ FinancialAndTimeCritical(args.reason)
    /\ includes(toLowerCase(args.reason), "kyc")
    /\ args.context.hasZkProof /\ ~args.context.proofVerified
    /\ ~args.context.referenceDataAvailable
    /\ FGt(out.weights.time, Num(2500))

\* The archetypes in the order of the claim, with their keywords.
ArchetypeRank(archetype) ==
    CASE archetype = "financial" -> 1 [] archetype = "environmental" -> 2
      [] archetype = "governance" -> 3 [] archetype = "event_outcome" -> 4
      [] archetype = "sensitive" -> 5 [] archetype = "balanced" -> 6

ArchetypeOccurs(archetype, reason) ==
    LET r == toLowerCase(reason)
        in(w) == includes(r, w)
    IN  CASE archetype = "financial" -> in("financial") \/ in("price") \/ in("trading")
          [] archetype = "environmental" -> in("environment") \/ in("weather") \/ in("sensor")
          [] archetype = "governance" -> in("governance") \/ in("vote") \/ in("policy")
          [] archetype = "event_outcome" -> in("event") \/ in("outcome") \/ in("result")
          [] archetype = "sensitive" -> in("sensitive") \/ in("private") \/ in("kyc")
          [] archetype = "balanced" -> TRUE

Archetypes ==
    {"financial", "environmental", "governance", "event_outcome", "sensitive", "balanced"}

\* The earliest archetype, in the order of the claim, with a keyword in the
\* rationale; balanced when there is none.
EarliestArchetype(reason) ==
    CHOOSE a \in Archetypes :
        /\ ArchetypeOccurs(a, reason)
        /\ \A b \in Archetypes : ArchetypeOccurs(b, reason) => ArchetypeRank(a) <= ArchetypeRank(b)

\* A rationale that names one archetype only, by its first keyword, and
\* keeps what else the generator reads in the rationale.
OnlyArchetype(archetype, reason) ==
    LET r == toLowerCase(reason)
        word == CASE archetype = "financial" -> "financial"
                  [] archetype = "environmental" -> "environment"
                  [] archetype = "governance" -> "governance"
                  [] archetype = "event_outcome" -> "event"
                  [] archetype = "sensitive" -> "sensitive"
                  [] archetype = "balanced" -> "any"
    IN  word
        \o (IF includes(r, "real-time") \/ includes(r, "time-critical")
            THEN " real-time" ELSE "")
        \o (IF includes(r, "untrusted") \/ includes(r, "unknown source")
            THEN " untrusted" ELSE "")
        \o (IF includes(r, "strict") \/ includes(r, "high standard") THEN " strict" ELSE "")
        \o (IF includes(r, "lenient") \/ includes(r, "flexible") THEN " lenient" ELSE "")

\* C23: the classification is first-match-wins in the order financial,
\* environmental, governance, event-outcome, sensitive, balanced by default:
\* analyzeContext returns the earliest archetype with a keyword in the
\* rationale, and the generated formula is the one generated for a rationale
\* naming that archetype alone (same id, weights and minimum score).
C23_FirstArchetypeWins ==
    /\ fn = "analyzeContext" => out.template = EarliestArchetype(args.reason)
    /\ fn = "generateCustomFormula" =>
           out = generateCustomFormula(
                     args.context, OnlyArchetype(EarliestArchetype(args.reason), args.reason),
                     args.halves, args.noise, now)

\* A rationale with keywords of three archetypes, classified as the first.
C23_Witness ==
    /\ fn = "generateCustomFormula"
    /\ ArchetypeOccurs("governance", args.reason)
    /\ ArchetypeOccurs("event_outcome", args.reason)
    /\ ArchetypeOccurs("sensitive", args.reason)
    /\ ~ArchetypeOccurs("financial", args.reason)
    /\ ~ArchetypeOccurs("environmental", args.reason)
    /\ out.id[2] = "governance"
    /\ out.minAcceptableScore = 75

(***************************************************************************)
(* Calls of the package functions one after the other on the objects of    *)
(* the heap: a call may be given the object the call before returned.      *)
(***************************************************************************)
MaxCatalogCalls == 3

Ref(path) == [k |-> "ref", at |-> path]

\* The path of the next object a call creates.
Fresh(h) == <<"object", Cardinality(DOMAIN h)>>

\* The formula held by an object of the heap, its weights read through the
\* reference.
FormulaAt(h, path) ==
    [id |-> h[path].id, weights |-> h[h[path].weights],
     minAcceptableScore |-> h[path].minAcceptableScore]

IsFormula(h, ref) ==
    ref.k = "ref" /\ ref.at \in DOMAIN h /\ "weights" \in DOMAIN h[ref.at]

\* The write of the correction lands on the template's base weights.
ResidualTarget_Template(templateWeights, weights) == templateWeights

\* The object 'weights.source += 1.0 - finalSum' writes to: the one bound
\* to the local variable weights, created by the normalisation.
ResidualTarget(templateWeights, weights) == weights

CatalogInit ==
    /\ NoCall
    /\ args = None
    /\ ProcessIdle

\* What a call of a package function leaves alone.
Called(name, input) ==
    /\ calls < MaxCatalogCalls
    /\ calls' = calls + 1
    /\ fn' = name
    /\ args' = input
    /\ UNCHANGED <<database, chain, env, now, primusSdk, primusInitialized,
                   anthropicClient, pendingVerifications, sdkInits, attestations,
                   mockLog, pc, request, local, zkResult, response>>

\* selectFormula returns the catalog's own Formula object.
CallSelectFormula(dataType) ==
    /\ Called("selectFormula", [dataType |-> dataType])
    /\ out' = Ref(<<"FORMULAS", selectFormula(dataType)>>)
    /\ UNCHANGED heap

\* applyWeightAdjustments(formula.weights, adjustments) on the formula the
\* call before returned: the base weights object itself comes back when
\* there are no adjustments, a new object otherwise.
CallApplyWeightAdjustments(adjustments) ==
    /\ IsFormula(heap, out)
    /\ Called("applyWeightAdjustments", [base |-> out, adjustments |-> adjustments])
    /\ LET baseWeights == heap[out.at].weights
       IN  IF adjustments = Undefined
           THEN out' = Ref(baseWeights) /\ UNCHANGED heap
           ELSE /\ heap' = heap @@ (Fresh(heap) :>
                               applyWeightAdjustments(heap[baseWeights], adjustments))
                /\ out' = Ref(Fresh(heap))

\* generateCustomFormula: the normalised weights are a new object, the
\* correction is written to ResidualTarget, the formula returned is a new
\* object holding the weights object.
CallGenerateCustomFormula(context, reason, halves, noise) ==
    LET shares == generateCustomFormula_NoResidual(context, reason, halves, noise, now)
        formula == generateCustomFormula(context, reason, halves, noise, now)
        corrects == SumOf(shares.weights) # Whole(1) \/ noise
        templateWeights == <<"FORMULA_TEMPLATES", formula.id[2], "baseWeights">>
        weights == Fresh(heap)
        allocated == heap @@ (weights :> shares.weights)
        written == IF corrects
                   THEN [allocated EXCEPT ![ResidualTarget(templateWeights, weights)].source =
                                              formula.weights.source]
                   ELSE allocated
    IN  /\ Called("generateCustomFormula",
                  [context |-> context, reason |-> reason, corrects |-> corrects])
        /\ heap' = written @@ (Fresh(written) :> [formula EXCEPT !.weights = weights])
        /\ out' = Ref(Fresh(written))

\* evaluateCredibility(dataType, baseScores): the catalog's formula for the
\* data type, read where selectFormula found it, and the score under it.
CallEvaluateCredibility(dataType, baseScores) ==
    /\ Called("evaluateCredibility", [dataType |-> dataType, baseScores |-> baseScores])
    /\ out' = [k |-> "value",
               result |-> calculateCredibilityScore(
                              baseScores, FormulaAt(heap, <<"FORMULAS", selectFormula(dataType)>>))]
    /\ UNCHANGED heap

\* calculateCredibilityScore(baseScores, formula) with the formula the call
\* before returned, generated or from the catalog.
CallCalculateCredibilityScore(baseScores) ==
    /\ IsFormula(heap, out)
    /\ Called("calculateCredibilityScore", [formula |-> out, baseScores |-> baseScores])
    /\ out' = [k |-> "value",
               result |-> calculateCredibilityScore(baseScores, FormulaAt(heap, out.at))]
    /\ UNCHANGED heap

CatalogDataTypes == {"price_feed", "Weather", "random_type"}

CatalogAdjustments ==
    {Undefined,
     [source |-> Num(500), time |-> Undefined, accuracy |-> FNeg(Num(500)), proof |-> Num(500)]}

CatalogContexts ==
    {[oracleName |-> "HFTOracle", dataType |-> "high_frequency_trading",
      hasZkProof |-> TRUE, proofVerified |-> TRUE, referenceDataAvailable |-> TRUE]}

CatalogRationales == {"real-time trading", "general purpose"}

CatalogScores ==
    {[source |-> Num(9500), time |-> Num(9000), accuracy |-> Num(10000), proof |-> Num(10000)]}

CatalogNext ==
    \/ \E dataType \in CatalogDataTypes : CallSelectFormula(dataType)
    \/ \E adjustments \in CatalogAdjustments : CallApplyWeightAdjustments(adjustments)
    \/ \E context \in CatalogContexts, reason \in CatalogRationales, noise \in BOOLEAN :
           CallGenerateCustomFormula(context, reason, [k \in WeightNames |-> TRUE], noise)
    \/ \E dataType \in CatalogDataTypes, baseScores \in CatalogScores :
           CallEvaluateCredibility(dataType, baseScores)
    \/ \E baseScores \in CatalogScores : CallCalculateCredibilityScore(baseScores)

SpecCatalog == CatalogInit /\ [][CatalogNext]_vars

\* C24: the catalog and the generator's templates are never mutated: after
\* any sequence of selectFormula, applyWeightAdjustments,
\* generateCustomFormula and evaluations every catalog profile and every
\* template is the object the module created, with its original weights and
\* threshold, and the catalog has its original keys (no generated formula
\* is added to it).
C24_CatalogNeverMutated ==
    \A p \in ModulePaths : p \in DOMAIN heap /\ heap[p] = ModuleObjects[p]

\* A formula was generated with the correction written, after a call that
\* returned adjusted weights and one that returned a catalog object.
C24_Witness ==
    /\ fn = "generateCustomFormula"
    /\ args.corrects
    /\ calls = MaxCatalogCalls
    /\ Cardinality(DOMAIN heap) = Cardinality(ModulePaths) + 3
    /\ heap[heap[out.at].weights] # FORMULA_TEMPLATES(heap[out.at].id[2]).baseWeights

(***************************************************************************)
(* Full evaluations of the scoring package: calculateAllBaseScores and     *)
(* evaluateCredibility on the two scenarios of its tests.                  *)
(***************************************************************************)
calculateAllBaseScores(sourceInput, timeInput, accuracyInput, proofInput) ==
    [source |-> calculateSourceScore(sourceInput),
     time |-> calculateTimeScore(timeInput),
     accuracy |-> calculateAccuracyScore(accuracyInput),
     proof |-> calculateProofScore(proofInput)]

\* The evaluation under the generic profile whatever the data type.
evaluateCredibility_Generic(dataType, baseScores) ==
    calculateCredibilityScore(baseScores, FORMULAS["generic_v1"])

\* evaluateCredibility without a formula override.
evaluateCredibility(dataType, baseScores) ==
    calculateCredibilityScore(baseScores, FORMULAS[selectFormula(dataType)])

\* A well-known oracle, a value 0 to 0.5% from the median of three
\* references (medians 100 and 200), 30 s old with a max age of 300 s, a
\* proof verified against each trusted domain; tolerance 1% and no uptime
\* figure, as in the package's test.
ScenarioA ==
    [scenario : {"A"},
     dataType : {"price_feed"},
     source : [oracleName : {"Chainlink"}, hasApiDocumentation : BOOLEAN,
               isRegulated : BOOLEAN, historicalUptime : {Undefined}],
     time : [reportedTimestamp : {270}, currentTimestamp : {300},
             maxAcceptableAgeSeconds : {300}],
     accuracy : [primaryValue : {1000000, 1005000, 995000, 1002500},
                 referenceValues : {<<1010000, 990000, 1000000>>,
                                    <<1000000, 1000000, 1004000>>},
                 tolerancePercent : {1}]
                \cup [primaryValue : {2010000, 1990000},
                      referenceValues : {<<2000000, 1000000, 2100000>>},
                      tolerancePercent : {1}],
     proof : [hasZkProof : {TRUE}, proofVerified : {TRUE}, proofDomain : trustedDomains]]

\* An oracle the table does not list, a value 5% or more from the median,
\* 600 s old with a max age of 300 s, a proof that failed verification.
ScenarioB ==
    [scenario : {"B"},
     dataType : {"price_feed"},
     source : [oracleName : {"UnknownOracle", "ShadyOracle", "constructor"},
               hasApiDocumentation : BOOLEAN, isRegulated : BOOLEAN,
               historicalUptime : {Undefined}],
     time : [reportedTimestamp : {0}, currentTimestamp : {600},
             maxAcceptableAgeSeconds : {300}],
     accuracy : [primaryValue : {1050000, 1080000, 950000, 2000000, 0},
                 referenceValues : {<<1000000, 1000000, 1000000>>},
                 tolerancePercent : {1}],
     proof : [hasZkProof : {TRUE}, proofVerified : {FALSE},
              proofDomain : {"", "api.coingecko.com"}]]

ScenarioInit ==
    /\ NoCall
    /\ args \in ScenarioA \cup ScenarioB
    /\ ProcessIdle

EvaluateCredibility ==
    Apply("evaluateCredibility",
          evaluateCredibility(args.dataType,
                              calculateAllBaseScores(args.source, args.time,
                                                     args.accuracy, args.proof)))

ScenarioNext == EvaluateCredibility

SpecScenario == ScenarioInit /\ [][ScenarioNext]_vars

\* C25: for Chainlink, category price_feed, a primary value within 0.5% of
\* the (non-zero) median of three reference values, data reported 30 seconds
\* ago with a 300-second max age and a proof verified against a trusted
\* domain, the formula is price_feed_v1, the final score is at least 85 and
\* the trust level is high.
C25_ScenarioHighQualityFeed ==
    (fn = "evaluateCredibility" /\ args.scenario = "A") =>
        /\ out.formulaId = "price_feed_v1"
        /\ FGe(out.finalScore, Whole(85))
        /\ out.trustLevel = "high"

\* The value exactly 0.5% above the median, no documentation or regulation
\* bonus.
C25_Witness ==
    /\ fn = "evaluateCredibility"
    /\ args.scenario = "A"
    /\ args.accuracy.primaryValue = 1005000
    /\ args.accuracy.referenceValues = <<1010000, 990000, 1000000>>
    /\ ~args.source.hasApiDocumentation /\ ~args.source.isRegulated
    /\ out.finalScore = Whole(92)

\* C26: for an oracle absent from the reputation table, category
\* price_feed, a primary value at least 5% away from the reference median,
\* data reported 10 minutes ago with a 5-minute max age and a proof that
\* failed verification, the final score is below 40 and the trust level is
\* untrusted.
C26_ScenarioSuspiciousOracle ==
    (fn = "evaluateCredibility" /\ args.scenario = "B") =>
        /\ FLt(out.finalScore, Whole(40))
        /\ out.trustLevel = "untrusted"

(***************************************************************************)
(* Concurrent calls of the web verifyOracleDataSource in one process, up   *)
(* to the choice between the real and the mock path.  local holds, per     *)
(* caller, where its call stands (at) and the instance its initPrimusSdk   *)
(* created (mine); ready, the instances whose init resolved truthy; real,  *)
(* the instances realPrimusVerification was entered with.                  *)
(***************************************************************************)
MaxCallers == 2

MaxSdkCalls == 3

Callers == 1..MaxCallers

\* The n-th object created by new PrimusZKTLS().
Instance(n) == "PrimusZKTLS#" \o ToString(n)

SdkInit ==
    /\ fn = "" /\ args = None /\ out = None
    /\ database = {} /\ chain = Chain(FALSE) /\ heap = ModuleObjects
    /\ env = Env(TRUE, TRUE, TRUE, "unset", FALSE)
    /\ now = 0
    /\ primusSdk = "null"
    /\ primusInitialized = FALSE
    /\ anthropicClient = "null"
    /\ pendingVerifications = {}
    /\ calls = 0
    /\ sdkInits = [web |-> 0, pkg |-> 0]
    /\ attestations = [web |-> 0, pkg |-> 0]
    /\ mockLog = {}
    /\ pc = "idle"
    /\ request = None
    /\ zkResult = None
    /\ response = None
    /\ local = [at |-> [c \in Callers |-> "idle"],
                mine |-> [c \in Callers |-> "null"],
                ready |-> {}, real |-> {}]

SdkFrame ==
    UNCHANGED <<callVars, env, now, anthropicClient, pendingVerifications,
                attestations, mockLog, pc, request, zkResult, response>>

\* if (primusInitialized && primusSdk) realPrimusVerification else
\* mockVerification, for caller c.
Chosen(c, l) ==
    IF primusInitialized /\ primusSdk # "null"
    THEN [l EXCEPT !.at[c] = "real", !.real = @ \cup {primusSdk}]
    ELSE [l EXCEPT !.at[c] = "mock"]

\* verifyOracleDataSource is called: the SDK being marked initialised the
\* path is chosen at once, otherwise initPrimusSdk runs to its first await.
CallVerify(c) ==
    /\ local.at[c] = "idle"
    /\ calls < MaxSdkCalls
    /\ calls' = calls + 1
    /\ local' = IF ~primusInitialized /\ env.appId /\ env.appSecret
                THEN [local EXCEPT !.at[c] = "import"]
                ELSE Chosen(c, local)
    /\ UNCHANGED <<primusSdk, primusInitialized, sdkInits>>
    /\ SdkFrame

\* The dynamic import settles: primusSdk = new PrimusZKTLS() and init is
\* called on it, or the catch returns false.
ImportSettles(c, outcome) ==
    /\ local.at[c] = "import"
    /\ IF outcome = "loaded"
       THEN /\ primusSdk' = Instance(sdkInits.web + 1)
            /\ sdkInits' = [sdkInits EXCEPT !.web = @ + 1]
            /\ local' = [local EXCEPT !.at[c] = "init",
                                      !.mine[c] = Instance(sdkInits.web + 1)]
       ELSE /\ local' = [local EXCEPT !.at[c] = "resume"]
            /\ UNCHANGED <<primusSdk, sdkInits>>
    /\ UNCHANGED <<primusInitialized, calls>>
    /\ SdkFrame

\* The init of the caller's instance settles: primusInitialized = !!result,
\* or the catch returns false.
InitSettles(c, outcome) ==
    /\ local.at[c] = "init"
    /\ primusInitialized' = IF outcome = "throws" THEN primusInitialized
                            ELSE (outcome = "truthy")
    /\ local' = [local EXCEPT !.at[c] = "resume",
                              !.ready = IF outcome = "truthy"
                                        THEN @ \cup {local.mine[c]} ELSE @]
    /\ UNCHANGED <<primusSdk, sdkInits, calls>>
    /\ SdkFrame

\* The await of initPrimusSdk resumes and the path is chosen.
Resume(c) ==
    /\ local.at[c] = "resume"
    /\ local' = Chosen(c, local)
    /\ UNCHANGED <<primusSdk, primusInitialized, sdkInits, calls>>
    /\ SdkFrame

\* The verification returns.
ReturnVerify(c) ==
    /\ local.at[c] \in {"real", "mock"}
    /\ local' = [local EXCEPT !.at[c] = "idle"]
    /\ UNCHANGED <<primusSdk, primusInitialized, sdkInits, calls>>
    /\ SdkFrame

SdkNext ==
    \E c \in Callers :
        \/ CallVerify(c)
        \/ \E outcome \in {"loaded", "throws"} : ImportSettles(c, outcome)
        \/ \E outcome \in {"truthy", "falsy", "throws"} : InitSettles(c, outcome)
        \/ Resume(c)
        \/ ReturnVerify(c)

SpecSdk == SdkInit /\ [][SdkNext]_vars

\* C27: across any sequence or interleaving of verification calls in one
\* process the SDK handle is created and initialised at most once, and the
\* real attestation path is only ever entered with an instance whose init
\* has completed successfully.
C27_SdkInitialisedOnce ==
    /\ sdkInits.web <= 1
    /\ local.real \subseteq local.ready

(***************************************************************************)
(* The time factor as a function of the age.                               *)
(***************************************************************************)
\* C28: calculateTimeScore is non-increasing in the data's age: for a fixed
\* max acceptable age and two non-negative ages a1 <= a2, the score at a1 is
\* at least the score at a2; in particular data older than the max
\* acceptable age never scores higher than data still within it.
C28_TimeScoreNonIncreasing ==
    (fn = "calculateTimeScore" /\ args.currentTimestamp >= args.reportedTimestamp) =>
        \A later \in TimePoints :
            later >= args.currentTimestamp =>
                FGe(out, calculateTimeScore([args EXCEPT !.currentTimestamp = later]))

(***************************************************************************)
(* The three selectors on the catalog's own data types.                    *)
(***************************************************************************)
\* The data types listed by the specific profiles of the catalog.
CatalogTypes ==
    UNION {applicableDataTypes(id) : id \in FormulaIds \ {"generic_v1"}}

\* C29: for every data type listed in a catalog profile's
\* applicableDataTypes, the pattern-based selector and the web pipeline's
\* rule-based selector resolve the formula id that the catalog's exact-match
\* selector resolves.
C29_SelectorsAgreeOnCatalogTypes ==
    (/\ fn \in {"findMatchingFormula", "selectFormula", "selectFormulaRuleBased"}
     /\ args \in CatalogTypes)
        => out = selectFormula(args) /\ args \in applicableDataTypes(out)

(***************************************************************************)
(* The pending payload while the verification runs.  Evaluations run       *)
(* concurrently on one event loop; each is followed from its opening to    *)
(* the moment its await of verifyOracleDataSource settles.                 *)
(*   pc[e]       where evaluation e stands: idle, verifying, scored        *)
(*   request[e]  its request id, its body and the time of its opening      *)
(***************************************************************************)
MaxPending == 2

MaxPendingCalls == 3

Evaluations == 1..MaxPending

\* Bodies an evaluation is called with: two that reach the store, and one
\* whose missing dataValue makes the opening throw before it.
PendingRequests ==
    StoredRequests \cup {Req("Chainlink", "price_feed", Undefined, CoinGecko, Undefined)}

PendingInit ==
    /\ fn = "" /\ args = None /\ out = None
    /\ database = {} /\ chain = Chain(FALSE) /\ heap = ModuleObjects
    /\ env = Env(TRUE, TRUE, TRUE, "unset", FALSE)
    /\ now = 0
    /\ primusSdk = "null"
    /\ primusInitialized = FALSE
    /\ anthropicClient = "null"
    /\ pendingVerifications = {}
    /\ calls = 0
    /\ sdkInits = [web |-> 0, pkg |-> 0]
    /\ attestations = [web |-> 0, pkg |-> 0]
    /\ mockLog = {}
    /\ pc = [e \in Evaluations |-> "idle"]
    /\ request = [e \in Evaluations |-> None]
    /\ zkResult = None
    /\ response = None
    /\ local = None

\* The synchronous opening of evaluateOracleData: the request id is drawn,
\* the factor scores are computed, the payload is stored and
\* verifyOracleDataSource is called; an opening that throws goes to the
\* catch without storing or verifying.  Math.random() gives evaluations of
\* the same millisecond different suffixes.
OpenEvaluation(e, req, nonce) ==
    /\ pc[e] # "verifying"
    /\ calls < MaxPendingCalls
    /\ \A other \in Evaluations :
           pc[other] # "idle" => request[other].requestId # <<now, nonce>>
    /\ calls' = calls + 1
    /\ request' = [request EXCEPT ![e] =
                       [requestId |-> <<now, nonce>>, body |-> req, startedAt |-> now]]
    /\ IF OpeningError(req) # ""
       THEN /\ pc' = [pc EXCEPT ![e] = "scored"]
            /\ UNCHANGED pendingVerifications
       ELSE /\ pc' = [pc EXCEPT ![e] = "verifying"]
            /\ pendingVerifications' =
                   storePendingVerification(pendingVerifications, <<now, nonce>>, req, now)
    /\ UNCHANGED <<callVars, env, now, primusSdk, primusInitialized, anthropicClient,
                   sdkInits, attestations, mockLog, local, zkResult, response>>

\* The await of verifyOracleDataSource settles: the attestation has resolved
\* or failed, and the evaluation goes on to score.
VerificationSettles(e) ==
    /\ pc[e] = "verifying"
    /\ pc' = [pc EXCEPT ![e] = "scored"]
    /\ UNCHANGED <<callVars, env, now, primusSdk, primusInitialized, anthropicClient,
                   pendingVerifications, calls, sdkInits, attestations, mockLog,
                   request, local, zkResult, response>>

PendingNext ==
    \/ CacheTick
    \/ \E e \in Evaluations, req \in PendingRequests, nonce \in Nonces :
           OpenEvaluation(e, req, nonce)
    \/ \E e \in Evaluations : VerificationSettles(e)
    \/ \E requestId \in RequestIds : GET(requestId, None)

SpecPending == PendingInit /\ [][PendingNext]_vars

\* Evaluation e is inside its verification, which has lasted less than the
\* TTL.
Attesting(e) ==
    /\ pc[e] = "verifying"
    /\ now - request[e].startedAt < maxAge

=============================================================================
